---- MODULE Spec2Model ----
(***************************************************************************)
(* ClassPrefixer (src/src/extension.ts): the text rewriting engine that    *)
(* adds or strips a prefix on class tokens of JSX attribute values, and    *)
(* the command that runs it over the active document.                      *)
(*                                                                         *)
(* A string is a sequence of one-character strings.  Indices into strings  *)
(* are 0-based, as in the source: At(s, i) is s[i] of the source and       *)
(* Slice(s, a, b) is s.slice(a, b).                                        *)
(***************************************************************************)
EXTENDS Integers, Sequences, FiniteSets, TLC

(***************************************************************************)
(* Bounds of the model.                                                    *)
(***************************************************************************)
\* commands run one after another on the same document
MaxRuns == 2
\* class tokens in a generated class list
MaxTokens == 2
\* items in a generated expression body
MaxItems == 2

(***************************************************************************)
(* Strings.                                                                *)
(***************************************************************************)
At(s, i) == s[i + 1]

Slice(s, a, b) == SubSeq(s, a + 1, b)

SliceFrom(s, a) == SubSeq(s, a + 1, Len(s))

StartsWith(s, p) == Len(p) <= Len(s) /\ SubSeq(s, 1, Len(p)) = p

RECURSIVE IndexOfFrom(_, _, _)
IndexOfFrom(s, p, i) ==
  IF i + Len(p) > Len(s) THEN -1
  ELSE IF Slice(s, i, i + Len(p)) = p THEN i
  ELSE IndexOfFrom(s, p, i + 1)

\* s.indexOf(p): the least index at which p occurs in s, -1 when there is none
IndexOf(s, p) == IndexOfFrom(s, p, 0)

RECURSIVE Join(_, _)
\* parts.join(sep)
Join(parts, sep) ==
  IF Len(parts) = 0 THEN <<>>
  ELSE IF Len(parts) = 1 THEN parts[1]
  ELSE parts[1] \o sep \o Join(Tail(parts), sep)

RECURSIVE Concat(_)
Concat(parts) == IF Len(parts) = 0 THEN <<>> ELSE parts[1] \o Concat(Tail(parts))

(***************************************************************************)
(* Character classes of the regular expressions of the source.             *)
(***************************************************************************)
\* \s
WhiteSpace == {" ", "\t", "\n", "\r"}

\* \w
WordChars ==
  {"a","b","c","d","e","f","g","h","i","j","k","l","m","n","o","p","q","r","s",
   "t","u","v","w","x","y","z","A","B","C","D","E","F","G","H","I","J","K","L",
   "M","N","O","P","Q","R","S","T","U","V","W","X","Y","Z","0","1","2","3","4",
   "5","6","7","8","9","_"}

\* [\w$-]
NameChars == WordChars \cup {"$", "-"}

DoubleQuote == "\""

SingleQuote == "'"

\* the backtick character, which a TLA+ string cannot hold, under a name
BackTick == "backtick"

BackSlash == "\\"

\* the class of the three quote characters in the direct-value patterns
QuoteChars == {DoubleQuote, SingleQuote, BackTick}

RECURSIVE SkipClass(_, _, _)
\* the index after the longest run of characters of cls that starts at i
SkipClass(s, i, cls) ==
  IF i < Len(s) /\ At(s, i) \in cls THEN SkipClass(s, i + 1, cls) ELSE i

RECURSIVE SkipToClass(_, _, _)
\* the least index from i on that holds a character of cls, or the length
SkipToClass(s, i, cls) ==
  IF i < Len(s) /\ At(s, i) \notin cls THEN SkipToClass(s, i + 1, cls) ELSE i

(***************************************************************************)
(* processClasses (Token Processor).                                       *)
(***************************************************************************)
RECURSIVE SplitFrom(_, _, _)
\* classString.split(/\s+/) from index i on, cur being the piece under way
SplitFrom(s, i, cur) ==
  IF i >= Len(s) THEN <<cur>>
  ELSE IF At(s, i) \in WhiteSpace
       THEN <<cur>> \o SplitFrom(s, SkipClass(s, i, WhiteSpace), <<>>)
       ELSE SplitFrom(s, i + 1, Append(cur, At(s, i)))

SplitWhiteSpace(s) == SplitFrom(s, 0, <<>>)

NonEmpty(c) == Len(c) > 0

\* the callback of classes.map
\* a variant that takes a skip entry at the start of the name for the name
ProcessClassNameSkipPrefix(className, prefix, skipClasses, addPrefix) ==
  IF ~NonEmpty(className) THEN className
  ELSE IF addPrefix
       THEN IF StartsWith(className, prefix) THEN className
            ELSE IF \E e \in skipClasses : StartsWith(className, e) THEN className
            ELSE prefix \o className
       ELSE IF StartsWith(className, prefix)
            THEN SliceFrom(className, Len(prefix))
            ELSE className

RECURSIVE ProcessClassNameStripAll(_, _, _, _)
\* a variant that removes every leading occurrence of the prefix
ProcessClassNameStripAll(className, prefix, skipClasses, addPrefix) ==
  IF ~NonEmpty(className) THEN className
  ELSE IF addPrefix
       THEN IF StartsWith(className, prefix) THEN className
            ELSE IF className \in skipClasses THEN className
            ELSE prefix \o className
       ELSE IF StartsWith(className, prefix)
            THEN ProcessClassNameStripAll(SliceFrom(className, Len(prefix)),
                                          prefix, skipClasses, addPrefix)
            ELSE className

\* a variant that leaves the entries of the skip list alone when removing too
ProcessClassNameKeepsListed(className, prefix, skipClasses, addPrefix) ==
  IF ~NonEmpty(className) THEN className
  ELSE IF className \in skipClasses THEN className
  ELSE IF addPrefix
       THEN IF StartsWith(className, prefix) THEN className
            ELSE prefix \o className
       ELSE IF StartsWith(className, prefix)
            THEN SliceFrom(className, Len(prefix))
            ELSE className

ProcessClassName(className, prefix, skipClasses, addPrefix) ==
  IF ~NonEmpty(className) THEN className
  ELSE IF addPrefix
       THEN IF StartsWith(className, prefix) THEN className
            ELSE IF className \in skipClasses THEN className
            ELSE prefix \o className
       ELSE IF StartsWith(className, prefix)
            THEN SliceFrom(className, Len(prefix))
            ELSE className

ProcessClasses(classString, prefix, skipClasses, addPrefix) ==
  LET classes == SelectSeq(SplitWhiteSpace(classString), NonEmpty)
      processedClasses ==
        [k \in 1..Len(classes) |->
           ProcessClassName(classes[k], prefix, skipClasses, addPrefix)]
  IN  Join(processedClasses, <<" ">>)

(***************************************************************************)
(* findMatchingBrace (Brace Matcher).  The state of the loop is a record   *)
(* of its locals; done is set when the function has returned ret.          *)
(***************************************************************************)
BraceStart(openIndex) ==
  [i |-> openIndex, depth |-> 0, inSingle |-> FALSE, inDouble |-> FALSE,
   inBacktick |-> FALSE, done |-> FALSE, ret |-> -1]

\* a variant of the iteration that gives the backslash no meaning
BraceStepNoEscape(source, st) ==
  IF st.i >= Len(source) THEN [st EXCEPT !.done = TRUE, !.ret = -1]
  ELSE
    LET ch == At(source, st.i) IN
    IF st.inSingle THEN
      IF ch = SingleQuote THEN [st EXCEPT !.inSingle = FALSE, !.i = st.i + 1]
      ELSE [st EXCEPT !.i = st.i + 1]
    ELSE IF st.inDouble THEN
      IF ch = DoubleQuote THEN [st EXCEPT !.inDouble = FALSE, !.i = st.i + 1]
      ELSE [st EXCEPT !.i = st.i + 1]
    ELSE IF st.inBacktick THEN
      IF ch = BackTick THEN [st EXCEPT !.inBacktick = FALSE, !.i = st.i + 1]
      ELSE [st EXCEPT !.i = st.i + 1]
    ELSE IF ch = SingleQuote THEN [st EXCEPT !.inSingle = TRUE, !.i = st.i + 1]
    ELSE IF ch = DoubleQuote THEN [st EXCEPT !.inDouble = TRUE, !.i = st.i + 1]
    ELSE IF ch = BackTick THEN [st EXCEPT !.inBacktick = TRUE, !.i = st.i + 1]
    ELSE IF ch = "{" THEN [st EXCEPT !.depth = st.depth + 1, !.i = st.i + 1]
    ELSE IF ch = "}" THEN
      IF st.depth - 1 = 0
      THEN [st EXCEPT !.depth = 0, !.done = TRUE, !.ret = st.i]
      ELSE [st EXCEPT !.depth = st.depth - 1, !.i = st.i + 1]
    ELSE [st EXCEPT !.i = st.i + 1]

\* a variant of the iteration that counts the braces of a template literal
BraceStepTemplateBraces(source, st) ==
  IF st.i >= Len(source) THEN [st EXCEPT !.done = TRUE, !.ret = -1]
  ELSE
    LET ch == At(source, st.i) IN
    IF st.inSingle THEN
      IF ch = BackSlash THEN [st EXCEPT !.i = st.i + 2]
      ELSE IF ch = SingleQuote THEN [st EXCEPT !.inSingle = FALSE, !.i = st.i + 1]
      ELSE [st EXCEPT !.i = st.i + 1]
    ELSE IF st.inDouble THEN
      IF ch = BackSlash THEN [st EXCEPT !.i = st.i + 2]
      ELSE IF ch = DoubleQuote THEN [st EXCEPT !.inDouble = FALSE, !.i = st.i + 1]
      ELSE [st EXCEPT !.i = st.i + 1]
    ELSE IF st.inBacktick /\ ch = BackSlash THEN [st EXCEPT !.i = st.i + 2]
    ELSE IF st.inBacktick /\ ch = BackTick
      THEN [st EXCEPT !.inBacktick = FALSE, !.i = st.i + 1]
    ELSE IF ch = SingleQuote /\ ~st.inBacktick
      THEN [st EXCEPT !.inSingle = TRUE, !.i = st.i + 1]
    ELSE IF ch = DoubleQuote /\ ~st.inBacktick
      THEN [st EXCEPT !.inDouble = TRUE, !.i = st.i + 1]
    ELSE IF ch = BackTick THEN [st EXCEPT !.inBacktick = TRUE, !.i = st.i + 1]
    ELSE IF ch = "{" THEN [st EXCEPT !.depth = st.depth + 1, !.i = st.i + 1]
    ELSE IF ch = "}" THEN
      IF st.depth - 1 = 0
      THEN [st EXCEPT !.depth = 0, !.done = TRUE, !.ret = st.i]
      ELSE [st EXCEPT !.depth = st.depth - 1, !.i = st.i + 1]
    ELSE [st EXCEPT !.i = st.i + 1]

\* one iteration of the for loop, the i++ of the loop header included
BraceStep(source, st) ==
  IF st.i >= Len(source) THEN [st EXCEPT !.done = TRUE, !.ret = -1]
  ELSE
    LET ch == At(source, st.i) IN
    IF st.inSingle THEN
      IF ch = BackSlash THEN [st EXCEPT !.i = st.i + 2]
      ELSE IF ch = SingleQuote THEN [st EXCEPT !.inSingle = FALSE, !.i = st.i + 1]
      ELSE [st EXCEPT !.i = st.i + 1]
    ELSE IF st.inDouble THEN
      IF ch = BackSlash THEN [st EXCEPT !.i = st.i + 2]
      ELSE IF ch = DoubleQuote THEN [st EXCEPT !.inDouble = FALSE, !.i = st.i + 1]
      ELSE [st EXCEPT !.i = st.i + 1]
    ELSE IF st.inBacktick THEN
      IF ch = BackSlash THEN [st EXCEPT !.i = st.i + 2]
      ELSE IF ch = BackTick THEN [st EXCEPT !.inBacktick = FALSE, !.i = st.i + 1]
      ELSE [st EXCEPT !.i = st.i + 1]
    ELSE IF ch = SingleQuote THEN [st EXCEPT !.inSingle = TRUE, !.i = st.i + 1]
    ELSE IF ch = DoubleQuote THEN [st EXCEPT !.inDouble = TRUE, !.i = st.i + 1]
    ELSE IF ch = BackTick THEN [st EXCEPT !.inBacktick = TRUE, !.i = st.i + 1]
    ELSE IF ch = "{" THEN [st EXCEPT !.depth = st.depth + 1, !.i = st.i + 1]
    ELSE IF ch = "}" THEN
      IF st.depth - 1 = 0
      THEN [st EXCEPT !.depth = 0, !.done = TRUE, !.ret = st.i]
      ELSE [st EXCEPT !.depth = st.depth - 1, !.i = st.i + 1]
    ELSE [st EXCEPT !.i = st.i + 1]

RECURSIVE BraceRun(_, _)
BraceRun(source, st) ==
  IF st.done THEN st.ret ELSE BraceRun(source, BraceStep(source, st))

\* the index of the closing brace that matches the one at openIndex, or -1
FindMatchingBrace(source, openIndex) == BraceRun(source, BraceStart(openIndex))

(***************************************************************************)
(* replaceQuotedStringsIgnoringTemplates (Quoted-String Scanner).  The     *)
(* replacer is the closure of processExpressionAttributeLiterals, given by *)
(* the values it captures: rep = [prefix, skipClasses, addPrefix].         *)
(***************************************************************************)
Replacer(rep, content, quote) ==
  IF "identity" \in DOMAIN rep THEN content
  ELSE ProcessClasses(content, rep.prefix, rep.skipClasses, rep.addPrefix)

RECURSIVE ScanContentNoEscape(_, _, _, _)
\* a variant of the inner loop that gives the backslash no meaning
ScanContentNoEscape(input, j, quote, content) ==
  IF j >= Len(input) THEN [j |-> j, content |-> content]
  ELSE
    LET c == At(input, j) IN
    IF c = quote THEN [j |-> j, content |-> content]
    ELSE ScanContentNoEscape(input, j + 1, quote, Append(content, c))

RECURSIVE ScanContentUnescapes(_, _, _, _)
\* a variant of the inner loop that leaves the backslash of a pair out of
\* the content
ScanContentUnescapes(input, j, quote, content) ==
  IF j >= Len(input) THEN [j |-> j, content |-> content]
  ELSE
    LET c == At(input, j) IN
    IF c = BackSlash THEN
      IF j + 1 < Len(input)
      THEN ScanContentUnescapes(input, j + 2, quote, Append(content, At(input, j + 1)))
      ELSE ScanContentUnescapes(input, j + 1, quote, Append(content, c))
    ELSE IF c = quote THEN [j |-> j, content |-> content]
    ELSE ScanContentUnescapes(input, j + 1, quote, Append(content, c))

RECURSIVE ScanContent(_, _, _, _)
\* the inner while loop: from j on, up to the closing quote or the end of input
ScanContent(input, j, quote, content) ==
  IF j >= Len(input) THEN [j |-> j, content |-> content]
  ELSE
    LET c == At(input, j) IN
    IF c = BackSlash THEN
      IF j + 1 < Len(input)
      THEN ScanContent(input, j + 2, quote, content \o <<c, At(input, j + 1)>>)
      ELSE ScanContent(input, j + 1, quote, Append(content, c))
    ELSE IF c = quote THEN [j |-> j, content |-> content]
    ELSE ScanContent(input, j + 1, quote, Append(content, c))

\* a variant of the iteration that takes a backtick for an ordinary character
ScanStepNoTemplates(input, rep, st) ==
  LET ch == At(input, st.i) IN
  IF ch = DoubleQuote \/ ch = SingleQuote THEN
    LET s == ScanContent(input, st.i + 1, ch, <<>>) IN
    IF s.j < Len(input) /\ At(input, s.j) = ch
    THEN [st EXCEPT !.out = st.out \o <<ch>> \o Replacer(rep, s.content, ch) \o <<ch>>,
                    !.i = s.j + 1,
                    !.calls = Append(st.calls, [content |-> s.content, quote |-> ch])]
    ELSE [st EXCEPT !.out = Append(st.out, ch), !.i = st.i + 1]
  ELSE [st EXCEPT !.out = Append(st.out, ch), !.i = st.i + 1]

\* a variant of the iteration in which an unclosed string ends the scan: the
\* rest of the input is emitted as it is
ScanStepUnclosedVerbatim(input, rep, st) ==
  LET ch == At(input, st.i) IN
  IF st.inBacktick THEN
    IF ch = BackSlash /\ st.i + 1 < Len(input)
    THEN [st EXCEPT !.out = st.out \o <<ch, At(input, st.i + 1)>>, !.i = st.i + 2]
    ELSE [st EXCEPT !.out = Append(st.out, ch), !.i = st.i + 1,
                    !.inBacktick = (ch # BackTick)]
  ELSE IF ch = BackTick THEN
    [st EXCEPT !.inBacktick = TRUE, !.out = Append(st.out, ch), !.i = st.i + 1]
  ELSE IF ch = DoubleQuote \/ ch = SingleQuote THEN
    LET s == ScanContent(input, st.i + 1, ch, <<>>) IN
    IF s.j < Len(input) /\ At(input, s.j) = ch
    THEN [st EXCEPT !.out = st.out \o <<ch>> \o Replacer(rep, s.content, ch) \o <<ch>>,
                    !.i = s.j + 1,
                    !.calls = Append(st.calls, [content |-> s.content, quote |-> ch])]
    ELSE [st EXCEPT !.out = st.out \o SliceFrom(input, st.i), !.i = Len(input)]
  ELSE [st EXCEPT !.out = Append(st.out, ch), !.i = st.i + 1]

\* the locals of the outer loop; calls lists the calls of the replacer so far
ScanStart == [i |-> 0, out |-> <<>>, inBacktick |-> FALSE, calls |-> <<>>]

\* one iteration of the outer while loop (i < input.length)
ScanStep(input, rep, st) ==
  LET ch == At(input, st.i) IN
  IF st.inBacktick THEN
    IF ch = BackSlash /\ st.i + 1 < Len(input)
    THEN [st EXCEPT !.out = st.out \o <<ch, At(input, st.i + 1)>>, !.i = st.i + 2]
    ELSE [st EXCEPT !.out = Append(st.out, ch), !.i = st.i + 1,
                    !.inBacktick = (ch # BackTick)]
  ELSE IF ch = BackTick THEN
    [st EXCEPT !.inBacktick = TRUE, !.out = Append(st.out, ch), !.i = st.i + 1]
  ELSE IF ch = DoubleQuote \/ ch = SingleQuote THEN
    LET s == ScanContent(input, st.i + 1, ch, <<>>) IN
    IF s.j < Len(input) /\ At(input, s.j) = ch
    THEN [st EXCEPT !.out = st.out \o <<ch>> \o Replacer(rep, s.content, ch) \o <<ch>>,
                    !.i = s.j + 1,
                    !.calls = Append(st.calls, [content |-> s.content, quote |-> ch])]
    ELSE [st EXCEPT !.out = Append(st.out, ch), !.i = st.i + 1]
  ELSE [st EXCEPT !.out = Append(st.out, ch), !.i = st.i + 1]

RECURSIVE ScanRun(_, _, _)
ScanRun(input, rep, st) ==
  IF st.i < Len(input) THEN ScanRun(input, rep, ScanStep(input, rep, st)) ELSE st.out

ReplaceQuotedStringsIgnoringTemplates(input, rep) == ScanRun(input, rep, ScanStart)

(***************************************************************************)
(* Regular expressions.  A pattern source is a string, as in the source;   *)
(* new RegExp compiles the attribute-name part of it to a sequence of      *)
(* atoms [q, cls, c]: one character of a class (cls = "w" for \w, "name"   *)
(* for [\w$-], "lit" for the character c), taken once (q = "one"), zero or *)
(* more times ("star") or one or more times ("plus").  The grammar covers  *)
(* the sources the wildcard conversion produces and the fragments of       *)
(* RegexFragments; a source outside it is a SyntaxError of new RegExp.     *)
(***************************************************************************)
\* the characters of the class in escapeRegExp
RegExpMeta == {BackSlash, "^", "$", ".", "*", "+", "?", "(", ")", "[", BackTick, "{", "}", "|"}

RECURSIVE EscapeRegExp(_)
\* s.replace(/[...]/g, '\\$&')
EscapeRegExp(s) ==
  IF Len(s) = 0 THEN <<>>
  ELSE (IF s[1] \in RegExpMeta THEN <<BackSlash, s[1]>> ELSE <<s[1]>>)
       \o EscapeRegExp(Tail(s))

RECURSIVE SplitOn(_, _, _)
\* s.split(ch), cur being the piece under way
SplitOn(s, ch, cur) ==
  IF Len(s) = 0 THEN <<cur>>
  ELSE IF s[1] = ch THEN <<cur>> \o SplitOn(Tail(s), ch, <<>>)
  ELSE SplitOn(Tail(s), ch, Append(cur, s[1]))

\* the source text [\w$-]*
NameCharsStar == <<"[", BackSlash, "w", "$", "-", "]", "*">>

\* a variant that escapes the wildcard as it is, the "*" included
ToNameRegexLiteral(wild) == EscapeRegExp(wild)

\* wild.split('*').map(escapeRegExp).join('[\\w$-]*')
ToNameRegex(wild) ==
  LET parts == SplitOn(wild, "*", <<>>)
  IN  Join([k \in 1..Len(parts) |-> EscapeRegExp(parts[k])], NameCharsStar)

RECURSIVE Unique(_)
\* Array.from(new Set(xs)): the first occurrence of each element, in order
Unique(xs) ==
  IF Len(xs) = 0 THEN <<>>
  ELSE LET front == Unique(SubSeq(xs, 1, Len(xs) - 1))
           last == xs[Len(xs)]
       IN  IF \E k \in 1..Len(front) : front[k] = last THEN front
           ELSE Append(front, last)

Atom(q, cls, c) == [q |-> q, cls |-> cls, c |-> c]

InClass(a, ch) ==
  IF a.cls = "w" THEN ch \in WordChars
  ELSE IF a.cls = "name" THEN ch \in NameChars
  ELSE ch = a.c

SyntaxError == [ok |-> FALSE, atoms |-> <<>>]

RECURSIVE ParseAtoms(_, _, _)
\* the atoms of src from index i on, after the atoms acc
ParseAtoms(src, i, acc) ==
  IF i >= Len(src) THEN [ok |-> TRUE, atoms |-> acc]
  ELSE
    LET ch == At(src, i)
        \* the quantifier after an atom that ends before index j
        Quant(j) == IF j < Len(src) /\ At(src, j) = "*" THEN "star"
                    ELSE IF j < Len(src) /\ At(src, j) = "+" THEN "plus"
                    ELSE "one"
        Go(j, cls, c) ==
          ParseAtoms(src, IF Quant(j) = "one" THEN j ELSE j + 1,
                     Append(acc, Atom(Quant(j), cls, c)))
    IN
    IF ch = BackSlash THEN
      IF i + 1 >= Len(src) THEN SyntaxError
      ELSE IF At(src, i + 1) = "w" THEN Go(i + 2, "w", "")
      ELSE IF At(src, i + 1) \in RegExpMeta THEN Go(i + 2, "lit", At(src, i + 1))
      ELSE SyntaxError
    ELSE IF ch = "[" THEN
      IF i + 6 <= Len(src) /\ Slice(src, i, i + 6) = Slice(NameCharsStar, 0, 6)
      THEN Go(i + 6, "name", "")
      ELSE SyntaxError
    ELSE IF ch \in WordChars \cup {"-"} THEN Go(i + 1, "lit", ch)
    ELSE SyntaxError

\* new RegExp on the alternation (?:s1|...|sn) of attribute-name sources
\* followed by the fixed tail of the pattern: ok is FALSE when it throws
NewRegExp(sources) ==
  LET parsed == [k \in 1..Len(sources) |-> ParseAtoms(sources[k], 0, <<>>)]
  IN  [ok |-> \A k \in 1..Len(sources) : parsed[k].ok,
       alts |-> [k \in 1..Len(sources) |-> parsed[k].atoms]]

RECURSIVE SkipAtom(_, _, _)
\* the index after the longest run of characters of the atom's class from i
SkipAtom(text, i, a) ==
  IF i < Len(text) /\ InClass(a, At(text, i)) THEN SkipAtom(text, i + 1, a) ELSE i

RECURSIVE NameEnds(_, _, _, _)
RECURSIVE NameEndsDown(_, _, _, _, _)
\* the indices at which a match of atoms[k..] that starts at i can end, in
\* the order in which the backtracking matcher tries them (greedy first)
NameEnds(atoms, k, text, i) ==
  IF k > Len(atoms) THEN <<i>>
  ELSE
    LET a == atoms[k] IN
    IF a.q = "one" THEN
      IF i < Len(text) /\ InClass(a, At(text, i))
      THEN NameEnds(atoms, k + 1, text, i + 1) ELSE <<>>
    ELSE
      LET hi == SkipAtom(text, i, a)
      IN  NameEndsDown(atoms, k, text, hi, IF a.q = "plus" THEN i + 1 ELSE i)

NameEndsDown(atoms, k, text, j, lo) ==
  IF j < lo THEN <<>>
  ELSE NameEnds(atoms, k + 1, text, j) \o NameEndsDown(atoms, k, text, j - 1, lo)

RECURSIVE AltEnds(_, _, _, _)
\* the same for the alternation (?:alts[k]|alts[k+1]|...)
AltEnds(alts, k, text, i) ==
  IF k > Len(alts) THEN <<>>
  ELSE NameEnds(alts[k], 1, text, i) \o AltEnds(alts, k + 1, text, i)

NoMatch == [found |-> FALSE, index |-> -1, classStart |-> -1, classEnd |-> -1, end |-> -1]

\* \s*=\s*["'`]([^"'`]*)["'`] from index e on, for a match that started at s
\* (the class list runs to the first quote character, lazily or greedily)
QuotedTail(text, s, e) ==
  LET eq == SkipClass(text, e, WhiteSpace)
      q == SkipClass(text, eq + 1, WhiteSpace)
      close == SkipToClass(text, q + 1, QuoteChars)
  IN  IF /\ eq < Len(text) /\ At(text, eq) = "="
         /\ q < Len(text) /\ At(text, q) \in QuoteChars
         /\ close < Len(text)
      THEN [found |-> TRUE, index |-> s, classStart |-> q + 1,
            classEnd |-> close, end |-> close + 1]
      ELSE NoMatch

\* \s*=\s*\{ from index e on
BraceTail(text, s, e) ==
  LET eq == SkipClass(text, e, WhiteSpace)
      b == SkipClass(text, eq + 1, WhiteSpace)
  IN  IF /\ eq < Len(text) /\ At(text, eq) = "="
         /\ b < Len(text) /\ At(text, b) = "{"
      THEN [found |-> TRUE, index |-> s, classStart |-> -1,
            classEnd |-> -1, end |-> b + 1]
      ELSE NoMatch

PatternTail(tail, text, s, e) ==
  IF tail = "quoted" THEN QuotedTail(text, s, e) ELSE BraceTail(text, s, e)

RECURSIVE FirstTail(_, _, _, _, _)
\* the first of the name ends after which the tail of the pattern matches
FirstTail(tail, text, s, ends, k) ==
  IF k > Len(ends) THEN NoMatch
  ELSE LET m == PatternTail(tail, text, s, ends[k])
       IN  IF m.found THEN m ELSE FirstTail(tail, text, s, ends, k + 1)

RECURSIVE RegExpExec(_, _, _, _)
\* re.exec(text) with re.lastIndex = from, for a global pattern: the match
\* with the least start index at or after from
RegExpExec(re, tail, text, from) ==
  IF from > Len(text) THEN NoMatch
  ELSE LET m == FirstTail(tail, text, from, AltEnds(re.alts, 1, text, from), 1)
       IN  IF m.found THEN m ELSE RegExpExec(re, tail, text, from + 1)

(***************************************************************************)
(* String.prototype.replace with a string pattern, as the callback of the  *)
(* direct-value pass uses it: match.replace(classes, processedClasses).    *)
(***************************************************************************)
RECURSIVE GetSubstitution(_, _, _, _)
\* the replacement text with its $ patterns expanded
GetSubstitution(matched, str, position, replacement) ==
  IF Len(replacement) = 0 THEN <<>>
  ELSE IF replacement[1] = "$" /\ Len(replacement) >= 2
          /\ replacement[2] \in {"$", "&", BackTick, SingleQuote}
  THEN (IF replacement[2] = "$" THEN <<"$">>
        ELSE IF replacement[2] = "&" THEN matched
        ELSE IF replacement[2] = BackTick THEN Slice(str, 0, position)
        ELSE SliceFrom(str, position + Len(matched)))
       \o GetSubstitution(matched, str, position, SubSeq(replacement, 3, Len(replacement)))
  ELSE <<replacement[1]>> \o GetSubstitution(matched, str, position, Tail(replacement))

\* str.replace(searchValue, replaceValue): the first occurrence only
StringReplace(str, searchValue, replaceValue) ==
  LET pos == IndexOf(str, searchValue)
  IN  IF pos = -1 THEN str
      ELSE Slice(str, 0, pos)
           \o GetSubstitution(searchValue, str, pos, replaceValue)
           \o SliceFrom(str, pos + Len(searchValue))

(***************************************************************************)
(* Pattern builders.  The configuration is the record getConfig returns:   *)
(* prefix, skipClasses (as a set), customPatterns, useRegex,               *)
(* customRegexPatterns (sequences of pattern sources).                     *)
(***************************************************************************)
ClassNameSrc == <<"c", "l", "a", "s", "s", "N", "a", "m", "e">>

\* the wildcard "*ClassName" used when customPatterns is empty
DefaultWildcard == <<"*", "C", "l", "a", "s", "s", "N", "a", "m", "e">>

CustomNames(config) ==
  IF Len(config.customPatterns) > 0 THEN config.customPatterns ELSE <<DefaultWildcard>>

\* one direct-value pattern per distinct wildcard
BuildPatternsFromCustom(config) ==
  LET names == Unique(CustomNames(config))
  IN  [k \in 1..Len(names) |-> NewRegExp(<<ToNameRegex(names[k])>>)]

\* the direct-value patterns, and the fragments a warning was shown for
BuildPatterns(config) ==
  LET base == <<NewRegExp(<<ClassNameSrc>>)>>
      compiled == [k \in 1..Len(config.customRegexPatterns) |->
                     NewRegExp(<<config.customRegexPatterns[k]>>)]
      Compiles(re) == re.ok
      Throws(src) == ~NewRegExp(<<src>>).ok
  IN  IF config.useRegex
      THEN [patterns |-> base \o SelectSeq(compiled, Compiles),
            warned |-> SelectSeq(config.customRegexPatterns, Throws)]
      ELSE [patterns |-> base \o BuildPatternsFromCustom(config),
            warned |-> <<>>]

\* the sources joined by | in the alternation (?:...) of attribute names
BuildAttrNameAlternation(config) ==
  LET names == CustomNames(config)
      parts == <<ClassNameSrc>> \o
               (IF config.useRegex
                THEN SelectSeq(config.customRegexPatterns, NonEmpty)
                ELSE [k \in 1..Len(names) |-> ToNameRegex(names[k])])
  IN  Unique(parts)

(***************************************************************************)
(* The state: the document in the editor, the configuration, and the       *)
(* locals of processDocument, addPrefixToClasses / removePrefixFromClasses *)
(* and processExpressionAttributeLiterals of the command under way.        *)
(***************************************************************************)
(***************************************************************************)
(* The editor side: isFileSupported and the autoFormat field of getConfig. *)
(***************************************************************************)
SUPPORTED_EXTENSIONS ==
  {<<".", "j", "s">>, <<".", "j", "s", "x">>, <<".", "t", "s">>, <<".", "t", "s", "x">>}

UpperCase == <<"A", "B", "C", "D", "E", "F", "G", "H", "I", "J", "K", "L", "M",
               "N", "O", "P", "Q", "R", "S", "T", "U", "V", "W", "X", "Y", "Z">>

LowerCase == <<"a", "b", "c", "d", "e", "f", "g", "h", "i", "j", "k", "l", "m",
               "n", "o", "p", "q", "r", "s", "t", "u", "v", "w", "x", "y", "z">>

\* String.prototype.toLowerCase
ToLowerCase(s) ==
  [k \in 1..Len(s) |->
     IF \E u \in 1..26 : UpperCase[u] = s[k]
     THEN LowerCase[CHOOSE u \in 1..26 : UpperCase[u] = s[k]]
     ELSE s[k]]

\* String.prototype.endsWith
EndsWith(s, ext) == Len(s) >= Len(ext) /\ SliceFrom(s, Len(s) - Len(ext)) = ext

\* a variant that looks for the extension anywhere in the file name
IsFileSupportedAnywhere(fileName) ==
  \E ext \in SUPPORTED_EXTENSIONS : \E i \in 0..(Len(fileName) - Len(ext)) :
    Slice(ToLowerCase(fileName), i, i + Len(ext)) = ext

IsFileSupported(fileName) ==
  \E ext \in SUPPORTED_EXTENSIONS : EndsWith(ToLowerCase(fileName), ext)

\* config.get<boolean>('autoFormat') || true, for the value of the setting
GetConfigAutoFormat(setting) == IF setting THEN setting ELSE TRUE

VARIABLES
  scan,         \* a call of replaceQuotedStringsIgnoringTemplates on its own
  brace,        \* a call of findMatchingBrace on its own
  host,         \* the editor: whether one is active, its file name, the autoFormat setting
  events,       \* the calls made to the editor by the command under way or the last one
  doc,          \* the text of the active document
  config,       \* the configuration read by getConfig
  pc,           \* where the command under way is: idle, direct, expr, compare, caught
  addPrefix,    \* the argument of processDocument
  fullText,     \* document.getText() of the command under way
  patterns,     \* the patterns of the direct-value pass
  pi,           \* how many of them have been applied (the forEach index)
  result,       \* the text the passes work on
  reLastIndex,  \* lastIndex of the regular expression before its last exec
  m,            \* the match of that exec (found is FALSE for null)
  acc,          \* the output of the replace or of the expression pass so far
  cb,           \* the locals of the last call of the replace callback
  exprText,     \* the parameter text of processExpressionAttributeLiterals
  startRe,      \* the regular expression of the expression loop
  ex,           \* the locals of the last iteration of the expression loop
  notice,       \* the last notification shown
  warnings,     \* the fragments an "Invalid regex pattern" warning was shown for
  history       \* the commands that have ended: mode, input, output, outcome

program == <<host, events, doc, config, pc, addPrefix, fullText, patterns, pi, result,
             reLastIndex, m, acc, cb, exprText, startRe, ex, notice, warnings, history>>

vars == <<scan, brace, host, events, doc, config, pc, addPrefix, fullText, patterns, pi, result,
          reLastIndex, m, acc, cb, exprText, startRe, ex, notice, warnings, history>>

NoCallback == [match |-> <<>>, classes |-> <<>>, processedClasses |-> <<>>,
               ret |-> <<>>, called |-> FALSE]

\* skipped and rewritten keep what the iterations so far have done
NoIteration == [lastIndex |-> 0, openBraceIndex |-> -1, closeIndex |-> -1,
                body |-> <<>>, transformedBody |-> <<>>, step |-> "none",
                skipped |-> {}, rewritten |-> {}]

NoRegExp == [ok |-> FALSE, alts |-> <<>>]

\* pattern.exec on the text of the direct-value pass
ExecQuoted(re, text, from) == RegExpExec(re, "quoted", text, from)

\* startRe.exec(text) in the condition of the expression loop
ExecBrace(re, text, from) == RegExpExec(re, "brace", text, from)

\* the first match of the direct-value pattern number k (from 0) in text,
\* when there is such a pattern
FirstMatch(pats, k, text) ==
  IF k < Len(pats) THEN ExecQuoted(pats[k + 1], text, 0) ELSE NoMatch

\* the command starts: processDocument up to the first pass
ProcessDocument(mode) ==
  /\ pc = "idle"
  /\ Len(history) < MaxRuns
  /\ host.editor
  /\ IsFileSupported(host.fileName)
  /\ events' = <<>>
  /\ addPrefix' = mode
  /\ fullText' = doc
  /\ patterns' = BuildPatterns(config).patterns
  /\ warnings' = warnings \o BuildPatterns(config).warned
  /\ pi' = 0
  /\ result' = doc
  /\ reLastIndex' = 0
  /\ m' = FirstMatch(patterns', 0, doc)
  /\ acc' = <<>>
  /\ cb' = NoCallback
  /\ exprText' = <<>>
  /\ startRe' = NoRegExp
  /\ ex' = NoIteration
  /\ pc' = "direct"
  /\ UNCHANGED <<scan, brace, host>>
  /\ UNCHANGED <<doc, config, notice, history>>

\* processDocument without an active editor: an error message, and return
NoEditor(mode) ==
  /\ pc = "idle"
  /\ Len(history) < MaxRuns
  /\ ~host.editor
  /\ events' = <<"showErrorMessage">>
  /\ notice' = "openFile"
  /\ history' = Append(history, [addPrefix |-> mode, input |-> doc, output |-> doc,
                                  outcome |-> "noEditor", events |-> events'])
  /\ UNCHANGED <<scan, brace, host>>
  /\ UNCHANGED <<exprText, startRe, doc, config, pc, addPrefix, fullText, patterns, pi,
                 result, reLastIndex, m, acc, cb, ex, warnings>>

\* processDocument on a file that is not supported: a warning, and return
Unsupported(mode) ==
  /\ pc = "idle"
  /\ Len(history) < MaxRuns
  /\ host.editor
  /\ ~IsFileSupported(host.fileName)
  /\ events' = <<"showWarningMessage">>
  /\ notice' = "unsupported"
  /\ history' = Append(history, [addPrefix |-> mode, input |-> doc, output |-> doc,
                                  outcome |-> "unsupported", events |-> events'])
  /\ UNCHANGED <<scan, brace, host>>
  /\ UNCHANGED <<exprText, startRe, doc, config, pc, addPrefix, fullText, patterns, pi,
                 result, reLastIndex, m, acc, cb, ex, warnings>>

AddPrefixCommand == NoEditor(TRUE) \/ Unsupported(TRUE) \/ ProcessDocument(TRUE)

RemovePrefixCommand == NoEditor(FALSE) \/ Unsupported(FALSE) \/ ProcessDocument(FALSE)

\* the skip list handed to processClasses by either pass
SkipList == IF addPrefix THEN config.skipClasses ELSE {}

\* the replace callback of the direct-value pass, for the match mt of text
Callback(text, mt) ==
  LET match == Slice(text, mt.index, mt.end)
      classes == Slice(text, mt.classStart, mt.classEnd)
      processedClasses == ProcessClasses(classes, config.prefix, SkipList, addPrefix)
  IN  [match |-> match, classes |-> classes,
       processedClasses |-> processedClasses,
       ret |-> StringReplace(match, classes, processedClasses),
       called |-> TRUE]

\* result.replace(pattern, callback): the callback runs on the match m, and
\* the pattern is run again from the end of m
DirectReplaceMatch ==
  /\ pc = "direct"
  /\ pi < Len(patterns)
  /\ m.found
  /\ cb' = Callback(result, m)
  /\ acc' = acc \o Slice(result, reLastIndex, m.index) \o cb'.ret
  /\ reLastIndex' = m.end
  /\ m' = ExecQuoted(patterns[pi + 1], result, m.end)
  /\ UNCHANGED <<scan, brace, host, events>>
  /\ UNCHANGED <<exprText, startRe, doc, config, pc, addPrefix, fullText, patterns, pi,
                 result, ex, notice, warnings, history>>

\* result.replace(pattern, callback): no further match, the replaced text is
\* assigned to result and forEach goes to the next pattern
DirectReplaceEnd ==
  /\ pc = "direct"
  /\ pi < Len(patterns)
  /\ ~m.found
  /\ result' = acc \o SliceFrom(result, reLastIndex)
  /\ pi' = pi + 1
  /\ reLastIndex' = 0
  /\ m' = FirstMatch(patterns, pi + 1, result')
  /\ acc' = <<>>
  /\ UNCHANGED <<scan, brace, host, events>>
  /\ UNCHANGED <<exprText, startRe, doc, config, pc, addPrefix, fullText, patterns, cb,
                 ex, notice, warnings, history>>

\* processExpressionAttributeLiterals starts: new RegExp of the alternation
ExpressionStart ==
  /\ pc = "direct"
  /\ pi = Len(patterns)
  /\ startRe' = NewRegExp(BuildAttrNameAlternation(config))
  /\ startRe'.ok
  /\ pc' = "expr"
  /\ exprText' = result
  /\ reLastIndex' = 0
  /\ m' = ExecBrace(startRe', result, 0)
  /\ acc' = <<>>
  /\ ex' = NoIteration
  /\ UNCHANGED <<scan, brace, host, events>>
  /\ UNCHANGED <<doc, config, addPrefix, fullText, patterns, pi, result, cb,
                 notice, warnings, history>>

\* new RegExp throws a SyntaxError, which the catch of processDocument gets
ExpressionThrow ==
  /\ pc = "direct"
  /\ pi = Len(patterns)
  /\ ~NewRegExp(BuildAttrNameAlternation(config)).ok
  /\ pc' = "caught"
  /\ UNCHANGED <<scan, brace, host, events>>
  /\ UNCHANGED <<exprText, startRe, doc, config, addPrefix, fullText, patterns, pi,
                 result, reLastIndex, m, acc, cb, ex, notice, warnings, history>>

\* a variant in which an opener without a matching brace ends the loop
ExpressionSkipBreaks ==
  /\ pc = "expr"
  /\ m.found
  /\ FindMatchingBrace(exprText, m.end - 1) = -1
  /\ reLastIndex' = m.end
  /\ m' = NoMatch
  /\ ex' = [ex EXCEPT !.openBraceIndex = m.end - 1, !.closeIndex = -1,
                      !.body = <<>>, !.transformedBody = <<>>,
                      !.step = "skip",
                      !.skipped = ex.skipped \cup {[index |-> m.index, brace |-> m.end - 1]}]
  /\ UNCHANGED <<scan, brace, host, events>>
  /\ UNCHANGED <<exprText, startRe, doc, config, pc, addPrefix, fullText, patterns, pi,
                 result, acc, cb, notice, warnings, history>>

\* an iteration of the loop: an opener without a matching brace is skipped
ExpressionSkip ==
  /\ pc = "expr"
  /\ m.found
  /\ FindMatchingBrace(exprText, m.end - 1) = -1
  /\ reLastIndex' = m.end
  /\ m' = ExecBrace(startRe, exprText, m.end)
  /\ ex' = [ex EXCEPT !.openBraceIndex = m.end - 1, !.closeIndex = -1,
                      !.body = <<>>, !.transformedBody = <<>>,
                      !.step = "skip",
                      !.skipped = ex.skipped \cup {[index |-> m.index, brace |-> m.end - 1]}]
  /\ UNCHANGED <<scan, brace, host, events>>
  /\ UNCHANGED <<exprText, startRe, doc, config, pc, addPrefix, fullText, patterns, pi,
                 result, acc, cb, notice, warnings, history>>

\* a variant that leaves startRe.lastIndex where exec has put it, after the
\* opening brace
ExpressionRewriteNoAdvance ==
  /\ pc = "expr"
  /\ m.found
  /\ LET openBraceIndex == m.end - 1
         closeIndex == FindMatchingBrace(exprText, openBraceIndex)
         before == Slice(exprText, ex.lastIndex, openBraceIndex + 1)
         body == Slice(exprText, openBraceIndex + 1, closeIndex)
         transformedBody ==
           ReplaceQuotedStringsIgnoringTemplates(body,
             [prefix |-> config.prefix, skipClasses |-> SkipList,
              addPrefix |-> addPrefix])
     IN
     /\ closeIndex # -1
     /\ acc' = acc \o before \o transformedBody \o <<"}">>
     /\ reLastIndex' = m.end
     /\ m' = ExecBrace(startRe, exprText, m.end)
     /\ ex' = [lastIndex |-> closeIndex + 1, openBraceIndex |-> openBraceIndex,
               closeIndex |-> closeIndex, body |-> body,
               transformedBody |-> transformedBody, step |-> "rewrite",
               skipped |-> ex.skipped,
               rewritten |-> ex.rewritten \cup
                 {[open |-> openBraceIndex, close |-> closeIndex,
                   grow |-> Len(transformedBody) - Len(body)]}]
  /\ UNCHANGED <<scan, brace, host, events>>
  /\ UNCHANGED <<exprText, startRe, doc, config, pc, addPrefix, fullText, patterns, pi,
                 result, cb, notice, warnings, history>>

\* an iteration of the loop: the body of a balanced opener is rewritten
ExpressionRewrite ==
  /\ pc = "expr"
  /\ m.found
  /\ LET openBraceIndex == m.end - 1
         closeIndex == FindMatchingBrace(exprText, openBraceIndex)
         before == Slice(exprText, ex.lastIndex, openBraceIndex + 1)
         body == Slice(exprText, openBraceIndex + 1, closeIndex)
         transformedBody ==
           ReplaceQuotedStringsIgnoringTemplates(body,
             [prefix |-> config.prefix, skipClasses |-> SkipList,
              addPrefix |-> addPrefix])
     IN
     /\ closeIndex # -1
     /\ acc' = acc \o before \o transformedBody \o <<"}">>
     /\ reLastIndex' = closeIndex + 1
     /\ m' = ExecBrace(startRe, exprText, closeIndex + 1)
     /\ ex' = [lastIndex |-> closeIndex + 1, openBraceIndex |-> openBraceIndex,
               closeIndex |-> closeIndex, body |-> body,
               transformedBody |-> transformedBody, step |-> "rewrite",
               skipped |-> ex.skipped,
               rewritten |-> ex.rewritten \cup
                 {[open |-> openBraceIndex, close |-> closeIndex,
                   grow |-> Len(transformedBody) - Len(body)]}]
  /\ UNCHANGED <<scan, brace, host, events>>
  /\ UNCHANGED <<exprText, startRe, doc, config, pc, addPrefix, fullText, patterns, pi,
                 result, cb, notice, warnings, history>>

\* the loop ends: the rest of the text is appended and the result returned
ExpressionEnd ==
  /\ pc = "expr"
  /\ ~m.found
  /\ result' = acc \o SliceFrom(exprText, ex.lastIndex)
  /\ pc' = "compare"
  /\ UNCHANGED <<scan, brace, host, events>>
  /\ UNCHANGED <<exprText, startRe, doc, config, addPrefix, fullText, patterns, pi,
                 reLastIndex, m, acc, cb, ex, notice, warnings, history>>

Ended(outcome, output, evs) ==
  Append(history, [addPrefix |-> addPrefix, input |-> fullText,
                   output |-> output, outcome |-> outcome, events |-> evs])

\* a variant in which Format Document is executed on an unchanged text too
NoChangeFormats ==
  /\ pc = "compare"
  /\ fullText = result
  /\ events' = events \o <<"formatDocument", "showInformationMessage: did not find">>
  /\ notice' = "notFound"
  /\ history' = Ended("notFound", result, events')
  /\ pc' = "idle"
  /\ UNCHANGED <<scan, brace, host>>
  /\ UNCHANGED <<exprText, startRe, doc, config, addPrefix, fullText, patterns, pi, result,
                 reLastIndex, m, acc, cb, ex, warnings>>

\* processDocument: the text is unchanged, nothing is edited
NoChange ==
  /\ pc = "compare"
  /\ fullText = result
  /\ events' = Append(events, "showInformationMessage: did not find")
  /\ notice' = "notFound"
  /\ history' = Ended("notFound", result, events')
  /\ pc' = "idle"
  /\ UNCHANGED <<scan, brace, host>>
  /\ UNCHANGED <<exprText, startRe, doc, config, addPrefix, fullText, patterns, pi, result,
                 reLastIndex, m, acc, cb, ex, warnings>>

\* processDocument: editor.edit replaces the whole document by the processed
\* text
Edit ==
  /\ pc = "compare"
  /\ fullText # result
  /\ doc' = result
  /\ events' = Append(events, "edit")
  /\ pc' = "edited"
  /\ UNCHANGED <<scan, brace, host>>
  /\ UNCHANGED <<exprText, startRe, config, addPrefix, fullText, patterns, pi, result,
                 reLastIndex, m, acc, cb, ex, notice, warnings, history>>

\* processDocument: if (config.autoFormat) the Format Document command is
\* executed; the formatter of the model leaves the text as it is
Format ==
  /\ pc = "edited"
  /\ events' = IF GetConfigAutoFormat(host.autoFormat)
                THEN Append(events, "formatDocument")
                ELSE events
  /\ pc' = "formatted"
  /\ UNCHANGED <<scan, brace, host>>
  /\ UNCHANGED <<exprText, startRe, doc, config, addPrefix, fullText, patterns, pi, result,
                 reLastIndex, m, acc, cb, ex, notice, warnings, history>>

\* processDocument: the message that the prefix has been added or removed
Success ==
  /\ pc = "formatted"
  /\ events' = Append(events, "showInformationMessage: done")
  /\ notice' = "done"
  /\ history' = Ended("done", result, events')
  /\ pc' = "idle"
  /\ UNCHANGED <<scan, brace, host>>
  /\ UNCHANGED <<exprText, startRe, doc, config, addPrefix, fullText, patterns, pi, result,
                 reLastIndex, m, acc, cb, ex, warnings>>

\* processDocument: the catch block shows the error, nothing is edited
Catch ==
  /\ pc = "caught"
  /\ events' = Append(events, "showErrorMessage")
  /\ notice' = "error"
  /\ history' = Ended("error", fullText, events')
  /\ pc' = "idle"
  /\ UNCHANGED <<scan, brace, host>>
  /\ UNCHANGED <<exprText, startRe, doc, config, addPrefix, fullText, patterns, pi, result,
                 reLastIndex, m, acc, cb, ex, warnings>>

(***************************************************************************)
(* Initial states: documents and configurations within the bounds.         *)
(***************************************************************************)
\* the prefix of the configurations of the model
Prefix == <<"p", "-">>

\* a class name, and a shorter one that is a substring of it and of "className"
Plain == <<"c", "x">>

Short == <<"c">>

\* class names: the two above, a prefixed one, a twice prefixed one, one
\* made of "$" characters
Words == {Short, Plain, Prefix \o Plain, Prefix \o Prefix \o Plain, <<"$", "$">>}

\* the white space before, between and after the class names of a list
Layouts ==
  {[lead |-> <<>>, sep |-> <<" ">>, trail |-> <<>>],
   [lead |-> <<" ">>, sep |-> <<"\t", " ">>, trail |-> <<"\n">>]}

WordSeqs(n) == UNION {[1..k -> Words] : k \in 0..n}

ClassLists ==
  {lay.lead \o Join(ws, lay.sep) \o lay.trail :
     ws \in WordSeqs(MaxTokens), lay \in Layouts}

TestClassNameSrc == <<"t", "e", "s", "t", "C", "l", "a", "s", "s", "N", "a", "m", "e">>

\* the attribute names of the documents
ClassSrc == <<"c", "l", "a", "s", "s">>

AttrNames == {ClassNameSrc, TestClassNameSrc, ClassSrc}

\* the regex fragment \w+ClassName and one that does not compile
WordClassNameSrc == <<BackSlash, "w", "+", "C", "l", "a", "s", "s", "N", "a", "m", "e">>

RegexFragments == {WordClassNameSrc, <<"(">>}

DefaultConfig ==
  [prefix |-> Prefix, skipClasses |-> {}, customPatterns |-> <<>>,
   useRegex |-> FALSE, customRegexPatterns |-> <<>>]

SkipSets == {{Short}, {Plain, Prefix \o Plain}}

\* the configurations that differ in how attribute names are matched
MatcherConfigs ==
  {DefaultConfig,
   [DefaultConfig EXCEPT !.customPatterns = <<DefaultWildcard, TestClassNameSrc>>],
   [DefaultConfig EXCEPT !.useRegex = TRUE, !.customRegexPatterns = <<WordClassNameSrc>>],
   [DefaultConfig EXCEPT !.useRegex = TRUE,
                         !.customRegexPatterns = <<<<"(">>, WordClassNameSrc>>]}

Tag(attrs) == <<"<">> \o attrs \o <<">">>

\* className="..." over every class list and skip list
TokenScenarios ==
  {[doc |-> Tag(ClassNameSrc \o <<"=", DoubleQuote>> \o cl \o <<DoubleQuote>>),
    config |-> [DefaultConfig EXCEPT !.skipClasses = sk]] :
     cl \in ClassLists, sk \in SkipSets}

\* name = 'value' over the attribute names, the white space around "=", the
\* quote characters and the matcher configurations
SyntaxScenarios ==
  {[doc |-> Tag(name \o eq \o <<q1>> \o cl \o <<q2>>), config |-> cfg] :
     name \in AttrNames, eq \in {<<"=">>, <<" ", "=", " ">>},
     q1 \in {DoubleQuote, BackTick}, q2 \in {DoubleQuote, SingleQuote},
     cl \in {<<" ">>, Short, Plain}, cfg \in MatcherConfigs}

Quoted(q, content) == <<q>> \o content \o <<q>>

\* className={'cx'}
NestedAttr == ClassNameSrc \o <<"=", "{">> \o Quoted(SingleQuote, Plain) \o <<"}">>

\* the pieces of an expression body: quoted strings (with several tokens,
\* with a brace and an escaped quote inside), a template literal with a
\* quoted string and a directly quoted attribute inside, a string inside
\* parentheses and inner braces, braces, a lone quote, an opener
Items ==
  {Quoted(DoubleQuote, Short \o <<" ", " ">> \o Prefix \o Plain),
   Quoted(SingleQuote, <<"}", BackSlash, SingleQuote, "c">>),
   Quoted(BackTick, <<"$", "{">> \o Quoted(SingleQuote, Plain) \o <<"}">>
                      \o ClassNameSrc \o <<"=">> \o Quoted(DoubleQuote, Plain)),
   <<"{", "(">> \o Quoted(DoubleQuote, Plain) \o <<")", "}">>,
   <<"{">>,
   <<"}">>,
   <<SingleQuote>>,
   ClassNameSrc \o <<"=", "{">>}

ItemSeqs(n) == UNION {[1..k -> Items] : k \in 0..n}

Bodies == {Concat(items) : items \in ItemSeqs(MaxItems)}

\* the bodies with one item less
ShortBodies == {Concat(items) : items \in ItemSeqs(MaxItems - 1)}

\* what closes the expression and what follows it: the closing brace, or no
\* closing brace and a further attribute (over the shorter bodies)
Frames ==
  {[close |-> <<"}">>, rest |-> <<>>, bodies |-> Bodies],
   [close |-> <<>>, rest |-> <<" ">> \o NestedAttr, bodies |-> ShortBodies]}

\* className={body} over the bodies
ExpressionScenarios ==
  UNION {{[doc |-> Tag(ClassNameSrc \o <<"=", "{">> \o body \o fr.close \o fr.rest),
           config |-> [DefaultConfig EXCEPT !.skipClasses = {Short}]] :
            body \in fr.bodies} : fr \in Frames}

\* an expression value and a directly quoted value under each matcher
MixedScenarios ==
  {[doc |-> Tag(name \o <<" ", "=", " ", "{">> \o Quoted(SingleQuote, Plain) \o <<"}", " ">>
                \o ClassNameSrc \o <<"=">> \o Quoted(DoubleQuote, Plain)),
    config |-> cfg] :
     name \in AttrNames, cfg \in MatcherConfigs}

\* regex mode with a wildcard for testClassName and the fragment "class",
\* wildcard mode with the fragment "class" and one that does not compile
SupersedeConfigs ==
  {[DefaultConfig EXCEPT !.useRegex = TRUE,
                         !.customPatterns = <<TestClassNameSrc>>,
                         !.customRegexPatterns = <<ClassSrc>>],
   [DefaultConfig EXCEPT !.customRegexPatterns = <<ClassSrc, <<"(">>>>]}

\* name="cx" name={'cx'} under these configurations
SupersedeScenarios ==
  {[doc |-> Tag(name \o <<"=">> \o Quoted(DoubleQuote, Plain) \o <<" ">>
                \o name \o <<"=", "{">> \o Quoted(SingleQuote, Plain) \o <<"}">>),
    config |-> cfg] :
     name \in AttrNames, cfg \in SupersedeConfigs}

\* a class attribute inside the expression value of className, default
\* configuration
NestedClassScenarios ==
  {[doc |-> Tag(ClassNameSrc \o <<"=", "{", "<">> \o ClassSrc \o <<"=">>
                \o Quoted(DoubleQuote, Plain) \o <<">", "}">>),
    config |-> DefaultConfig]}

\* className={className={'cx'}} className={'cx'}: an opener inside the value
\* of another, and one after it
NestedOpenerScenarios ==
  {[doc |-> Tag(ClassNameSrc \o <<"=", "{">> \o NestedAttr \o <<"}", " ">> \o NestedAttr),
    config |-> DefaultConfig]}

\* a value with the prefix twice that two patterns of the direct-value pass
\* match (testClassName="p-p-cx" under *ClassName and testClassName), and
\* one that both passes reach (className={<className="p-p-cx">})
TwiceReachedScenarios ==
  {[doc |-> Tag(TestClassNameSrc \o <<"=">> \o Quoted(DoubleQuote, Prefix \o Prefix \o Plain)),
    config |-> [DefaultConfig EXCEPT !.customPatterns = <<DefaultWildcard, TestClassNameSrc>>]],
   [doc |-> Tag(ClassNameSrc \o <<"=", "{", "<">> \o ClassNameSrc \o <<"=">>
                \o Quoted(DoubleQuote, Prefix \o Prefix \o Plain) \o <<">", "}">>),
    config |-> DefaultConfig]}

\* className="cx'c' cx", and the same with backticks: quote characters of
\* another kind inside a double-quoted value
InnerQuoteScenarios ==
  {[doc |-> Tag(ClassNameSrc \o <<"=">>
                \o Quoted(DoubleQuote, Plain \o Quoted(q, Short) \o <<" ">> \o Plain)),
    config |-> DefaultConfig] :
     q \in {SingleQuote, BackTick}}

Scenarios ==
  TokenScenarios \cup SyntaxScenarios \cup ExpressionScenarios \cup MixedScenarios
    \cup SupersedeScenarios \cup NestedClassScenarios \cup NestedOpenerScenarios
    \cup TwiceReachedScenarios \cup InnerQuoteScenarios

\* an active editor on a .tsx file, the autoFormat setting at its default
DefaultHost ==
  [editor |-> TRUE, fileName |-> <<"a", ".", "t", "s", "x">>, autoFormat |-> TRUE]

\* file names: supported ones in lower, upper and mixed case, and ones that do
\* not end with a supported extension
FileNames ==
  {<<"a", ".", "t", "s">>, <<"a", ".", "T", "S", "X">>, <<"a", ".", "J", "s">>,
   <<"a", ".", "j", "s", "x">>, <<"a", ".", "t", "s", "x", "t">>,
   <<"a", ".", "h", "t", "m", "l">>, <<"t", "s">>, <<"a", ".", "t", "s", ".">>}

Hosts == [editor : BOOLEAN, fileName : FileNames, autoFormat : BOOLEAN]

\* className="cx" (edited when adding) and class="cx" (nothing to do) under
\* every host
HostScenarios ==
  {[doc |-> Tag(name \o <<"=">> \o Quoted(DoubleQuote, Plain)),
    config |-> DefaultConfig, host |-> h] :
     name \in {ClassNameSrc, ClassSrc}, h \in Hosts}

\* no call of the scanner or of the brace matcher on its own
NoScan == [input |-> <<>>, rep |-> [prefix |-> <<>>, skipClasses |-> {}, addPrefix |-> TRUE],
           st |-> ScanStart]

NoBrace == [source |-> <<>>, openIndex |-> 0, st |-> BraceStep(<<>>, BraceStart(0))]

\* no command under way, none run yet
Idle ==
  /\ pc = "idle"
  /\ addPrefix = TRUE
  /\ fullText = <<>>
  /\ patterns = <<>>
  /\ pi = 0
  /\ result = <<>>
  /\ reLastIndex = 0
  /\ m = NoMatch
  /\ acc = <<>>
  /\ cb = NoCallback
  /\ exprText = <<>>
  /\ startRe = NoRegExp
  /\ ex = NoIteration
  /\ notice = "none"
  /\ warnings = <<>>
  /\ history = <<>>
  /\ events = <<>>

Init ==
  /\ \/ \E sc \in Scenarios : doc = sc.doc /\ config = sc.config /\ host = DefaultHost
     \/ \E sc \in HostScenarios : doc = sc.doc /\ config = sc.config /\ host = sc.host
  /\ Idle
  /\ scan = NoScan
  /\ brace = NoBrace

Next ==
  \/ AddPrefixCommand
  \/ RemovePrefixCommand
  \/ DirectReplaceMatch
  \/ DirectReplaceEnd
  \/ ExpressionStart
  \/ ExpressionThrow
  \/ ExpressionSkip
  \/ ExpressionRewrite
  \/ ExpressionEnd
  \/ NoChange
  \/ Edit
  \/ Format
  \/ Success
  \/ Catch

Spec == Init /\ [][Next]_vars

(***************************************************************************)
(* The Quoted-String Scanner and the Brace Matcher as functions: a second  *)
(* specification calls each on texts within the bounds, one iteration of   *)
(* its loop at a time, with the replacer of the expression-value pass.     *)
(***************************************************************************)
\* the pieces of the texts: a string of two class names, a string with a
\* brace and an escaped quote inside, a template literal with a brace, a
\* quote and an escaped backtick inside, braces, lone quotes, a backslash
LexerItems ==
  {Quoted(DoubleQuote, Short \o <<" ">> \o Plain),
   Quoted(SingleQuote, <<"}", BackSlash, SingleQuote, "c">>),
   Quoted(BackTick, <<"{", SingleQuote, BackSlash, BackTick>>),
   <<"{", "}">>,
   <<"{">>,
   <<"}">>,
   <<SingleQuote>>,
   <<DoubleQuote>>,
   <<BackTick>>,
   <<BackSlash>>}

LexerItemSeqs(n) == UNION {[1..k -> LexerItems] : k \in 0..n}

LexerTexts == {Concat(items) : items \in LexerItemSeqs(MaxItems)}

\* a visitor that returns the content it is given
IdentityVisitor ==
  [prefix |-> <<>>, skipClasses |-> {}, addPrefix |-> TRUE, identity |-> TRUE]

Replacers ==
  {[prefix |-> Prefix, skipClasses |-> {Short}, addPrefix |-> TRUE],
   [prefix |-> Prefix, skipClasses |-> {}, addPrefix |-> FALSE],
   IdentityVisitor}

\* the texts handed to the brace matcher: the ones above, bare and in braces
BraceSources == LexerTexts \cup {<<"{">> \o t \o <<"}">> : t \in LexerTexts}

LexerInit ==
  /\ doc = <<>>
  /\ config = DefaultConfig
  /\ host = DefaultHost
  /\ Idle
  /\ \/ /\ \E t \in LexerTexts, r \in Replacers :
            scan = [input |-> t, rep |-> r, st |-> ScanStart]
        /\ brace = NoBrace
     \/ /\ scan = NoScan
        /\ \E t \in BraceSources : \E o \in 0..(Len(t) - 1) :
            /\ At(t, o) = "{"
            /\ brace = [source |-> t, openIndex |-> o, st |-> BraceStart(o)]

\* one iteration of the while loop of replaceQuotedStringsIgnoringTemplates
ScanIteration ==
  /\ scan.st.i < Len(scan.input)
  /\ scan' = [scan EXCEPT !.st = ScanStep(scan.input, scan.rep, scan.st)]
  /\ UNCHANGED <<brace, program>>

\* one iteration of the for loop of findMatchingBrace, or its return
BraceIteration ==
  /\ ~brace.st.done
  /\ brace' = [brace EXCEPT !.st = BraceStep(brace.source, brace.st)]
  /\ UNCHANGED <<scan, program>>

\* processExpressionAttributeLiterals hands the text between the braces that
\* findMatchingBrace has matched to replaceQuotedStringsIgnoringTemplates
ScanBody ==
  /\ brace.source # <<>>
  /\ brace.st.done
  /\ brace.st.ret # -1
  /\ scan = NoScan
  /\ \E r \in Replacers :
       scan' = [input |-> Slice(brace.source, brace.openIndex + 1, brace.st.ret),
                rep |-> r, st |-> ScanStart]
  /\ UNCHANGED <<brace, program>>

LexerNext == ScanIteration \/ BraceIteration \/ ScanBody

LexerSpec == LexerInit /\ [][LexerNext]_vars

(***************************************************************************)
(* Properties.  The class tokens of a string are read off by position, as  *)
(* the maximal runs of characters that are not whitespace.                 *)
(***************************************************************************)
TokenStarts(s) ==
  {i \in 1..Len(s) : s[i] \notin WhiteSpace /\ (i = 1 \/ s[i - 1] \in WhiteSpace)}

TokenAt(s, i) ==
  LET j == CHOOSE e \in i..Len(s) :
             /\ e = Len(s) \/ s[e + 1] \in WhiteSpace
             /\ \A k \in i..e : s[k] \notin WhiteSpace
  IN  SubSeq(s, i, j)

RECURSIVE TokensFrom(_, _)
TokensFrom(s, starts) ==
  IF starts = {} THEN <<>>
  ELSE LET i == CHOOSE x \in starts : \A y \in starts : x <= y
       IN  <<TokenAt(s, i)>> \o TokensFrom(s, starts \ {i})

\* the class tokens of s, in order
Tokens(s) == TokensFrom(s, TokenStarts(s))

\* s holds its tokens with one space between them and nothing around them
SingleSpaced(s) ==
  \A i \in 1..Len(s) :
    s[i] \in WhiteSpace =>
      /\ s[i] = " "
      /\ 1 < i /\ i < Len(s)
      /\ s[i - 1] \notin WhiteSpace /\ s[i + 1] \notin WhiteSpace

RECURSIVE SpaceJoined(_)
SpaceJoined(tokens) ==
  IF Len(tokens) = 0 THEN <<>>
  ELSE IF Len(tokens) = 1 THEN tokens[1]
  ELSE tokens[1] \o <<" ">> \o SpaceJoined(Tail(tokens))

IsSubstring(a, b) == \E i \in 0..(Len(b) - Len(a)) : Slice(b, i, i + Len(a)) = a

ExpectedAdd(t, prefix, skipClasses) ==
  IF StartsWith(t, prefix) \/ t \in skipClasses THEN t ELSE prefix \o t

ExpectedRemove(t, prefix) ==
  IF StartsWith(t, prefix) THEN SubSeq(t, Len(prefix) + 1, Len(t)) ELSE t

\* what stands in front of the class list in a match of the direct pass
MatchHead(c) == SubSeq(c.match, 1, Len(c.match) - Len(c.classes) - 1)

\* C1: adding is idempotent: an addPrefix run on the output of an addPrefix
\* run leaves the buffer as that first run left it
C1_AddIdempotent ==
  \A k \in 1..(Len(history) - 1) :
    (/\ history[k].addPrefix /\ history[k + 1].addPrefix
     /\ history[k].outcome # "error" /\ history[k + 1].outcome # "error"
     /\ history[k + 1].input = history[k].output)
    => history[k + 1].output = history[k].output

\* C2: removePrefix after addPrefix gives the buffer back, when no class
\* token of the buffer starts with the prefix (here: the prefix does not
\* occur in the buffer, and the buffer holds no whitespace to normalise)
C2_RoundTrip ==
  \A k \in 1..(Len(history) - 1) :
    (/\ history[k].addPrefix /\ ~history[k + 1].addPrefix
     /\ history[k].outcome # "error" /\ history[k + 1].outcome # "error"
     /\ history[k + 1].input = history[k].output
     /\ ~IsSubstring(config.prefix, history[k].input)
     /\ \A i \in 1..Len(history[k].input) : history[k].input[i] \notin WhiteSpace)
    => history[k + 1].output = history[k].input

\* C3: in a directly quoted value rewritten by addPrefix, a token equal to
\* an entry of skipClasses stays as it is, and a token that is only a
\* substring or a superstring of an entry gets the prefix unless it has it
C3_SkipListExact ==
  (/\ cb.called /\ addPrefix
   /\ \E k \in 1..Len(Tokens(cb.classes)) : \E e \in config.skipClasses :
        /\ Tokens(cb.classes)[k] # e
        /\ IsSubstring(Tokens(cb.classes)[k], e) \/ IsSubstring(e, Tokens(cb.classes)[k]))
  =>
  LET head == MatchHead(cb)
      tokens == Tokens(cb.classes)
      value == SubSeq(cb.ret, Len(head) + 1, Len(cb.ret) - 1)
  IN  /\ StartsWith(cb.ret, head)
      /\ Len(cb.ret) > Len(head)
      /\ Len(Tokens(value)) = Len(tokens)
      /\ \A k \in 1..Len(tokens) :
           Tokens(value)[k] =
             IF tokens[k] \in config.skipClasses THEN tokens[k]
             ELSE IF StartsWith(tokens[k], config.prefix) THEN tokens[k]
             ELSE config.prefix \o tokens[k]

\* C4: in the add direction the Token Processor gives the tokens of its
\* input, in order, each one unchanged when it starts with the prefix or is
\* an entry of skipClasses and with the prefix in front otherwise, joined by
\* single spaces
C4_TokenProcessorAdd ==
  (cb.called /\ addPrefix) =>
    LET tokens == Tokens(cb.classes) IN
      /\ Tokens(cb.processedClasses) =
           [k \in 1..Len(tokens) |->
              ExpectedAdd(tokens[k], config.prefix, config.skipClasses)]
      /\ SingleSpaced(cb.processedClasses)

\* a list with irregular whitespace, a skipped token and a token that gets
\* the prefix has gone through the Token Processor
C4_Witness ==
  /\ cb.called /\ addPrefix
  /\ LET tokens == Tokens(cb.classes) IN
       /\ Len(tokens) = 2
       /\ tokens[1] \in config.skipClasses
       /\ tokens[2] \notin config.skipClasses /\ ~StartsWith(tokens[2], config.prefix)
       /\ Len(cb.classes) > Len(tokens[1]) + Len(tokens[2]) + 1
       /\ cb.processedClasses = tokens[1] \o <<" ">> \o config.prefix \o tokens[2]

TemplateOpen == <<"<">> \o ClassNameSrc \o <<"=", "{", BackTick>>

TemplateClose == <<BackTick, "}", ">">>

TemplateSpan(d) == SubSeq(d, Len(TemplateOpen) + 1, Len(d) - Len(TemplateClose))

IsTemplateValue(d) ==
  /\ Len(d) >= Len(TemplateOpen) + Len(TemplateClose)
  /\ StartsWith(d, TemplateOpen)
  /\ SubSeq(d, Len(d) - Len(TemplateClose) + 1, Len(d)) = TemplateClose
  /\ \A i \in 1..Len(TemplateSpan(d)) : TemplateSpan(d)[i] \notin {BackTick, BackSlash}

\* C6: the characters of a template literal in the expression value of a
\* matched attribute are the same in the output of a run as in its input
C6_TemplateOpaque ==
  \A k \in 1..Len(history) :
    (IsTemplateValue(history[k].input) /\ history[k].outcome # "error") =>
      /\ IsTemplateValue(history[k].output)
      /\ TemplateSpan(history[k].output) = TemplateSpan(history[k].input)

\* C7: the direct-value pass puts, for a match, what stood in front of the
\* class list, the processed class list and the closing quote: the attribute
\* name, the "=", the whitespace and the quotes are the ones of the match
C7_AttributeSyntaxKept ==
  cb.called =>
    cb.ret = MatchHead(cb) \o cb.processedClasses \o <<cb.match[Len(cb.match)]>>

(***************************************************************************)
(* The strings of an expression body, read character by character: each    *)
(* character is code, part of a quoted string or part of a template        *)
(* literal, and a backslash inside a literal takes the next character.     *)
(***************************************************************************)
RECURSIVE Lex(_, _, _, _, _, _, _)
Lex(body, i, mode, esc, content, out, rep) ==
  IF i > Len(body)
  THEN IF mode \in {SingleQuote, DoubleQuote} THEN out \o content ELSE out
  ELSE
    LET c == body[i] IN
    IF mode = "code" THEN
      IF c \in QuoteChars
      THEN Lex(body, i + 1, c, FALSE, <<>>, Append(out, c), rep)
      ELSE Lex(body, i + 1, "code", FALSE, <<>>, Append(out, c), rep)
    ELSE IF mode = BackTick THEN
      IF esc THEN Lex(body, i + 1, mode, FALSE, <<>>, Append(out, c), rep)
      ELSE IF c = BackSlash THEN Lex(body, i + 1, mode, TRUE, <<>>, Append(out, c), rep)
      ELSE IF c = BackTick THEN Lex(body, i + 1, "code", FALSE, <<>>, Append(out, c), rep)
      ELSE Lex(body, i + 1, mode, FALSE, <<>>, Append(out, c), rep)
    ELSE
      IF esc THEN Lex(body, i + 1, mode, FALSE, Append(content, c), out, rep)
      ELSE IF c = BackSlash THEN Lex(body, i + 1, mode, TRUE, Append(content, c), out, rep)
      ELSE IF c = mode
      THEN Lex(body, i + 1, "code", FALSE, <<>>,
               out \o ProcessClasses(content, rep.prefix, rep.skipClasses, rep.addPrefix)
                   \o <<c>>, rep)
      ELSE Lex(body, i + 1, mode, FALSE, Append(content, c), out, rep)

\* body with the content of every quoted string outside template literals
\* replaced by what the Token Processor makes of it
Rewritten(body, rep) == Lex(body, 1, "code", FALSE, <<>>, <<>>, rep)

\* the matches of the opener name\s*=\s*{ at the start indices of t
Openers(t) ==
  {FirstTail("brace", t, s, AltEnds(startRe.alts, 1, t, s), 1) : s \in 0..Len(t)}
    \ {NoMatch}

Balanced(t, o) == FindMatchingBrace(t, o.end - 1) # -1

\* the brace of the opener o is the brace of a rewritten value or in one
InRewritten(o) == \E r \in ex.rewritten : r.open <= o.end - 1 /\ o.end - 1 < r.close

InvalidFragment ==
  /\ config.useRegex
  /\ \E k \in 1..Len(config.customRegexPatterns) :
       ~NewRegExp(<<config.customRegexPatterns[k]>>).ok

\* C9: with a fragment that is not a valid regular expression among the
\* regex fragments a run does not abort
C9_InvalidFragmentNotFatal ==
  InvalidFragment =>
    /\ pc # "caught"
    /\ \A k \in 1..Len(history) : history[k].outcome # "error"

RECURSIVE Growth(_)
\* by how much the rewritten values rs have grown together
Growth(rs) ==
  IF rs = {} THEN 0
  ELSE LET r == CHOOSE x \in rs : TRUE IN r.grow + Growth(rs \ {r})

\* C10: an opener whose brace has no matching brace is skipped: the scan
\* goes on right after that brace with the next opener, the text of the
\* skipped opener is in the output as it was, and a later opener with a
\* matching brace is rewritten all the same
C10_UnbalancedSkipped ==
  /\ (pc = "expr" /\ ex.step = "skip") =>
       LET later == {o \in Openers(exprText) : o.index >= reLastIndex} IN
         /\ reLastIndex = ex.openBraceIndex + 1
         /\ IF later = {} THEN ~m.found
            ELSE /\ m.found
                 /\ m \in later
                 /\ \A o \in later : m.index <= o.index
  /\ pc = "compare" =>
       /\ \A u \in ex.skipped :
            LET shift == Growth({r \in ex.rewritten : r.close < u.index}) IN
              Slice(result, u.index + shift, u.brace + 1 + shift)
                = Slice(exprText, u.index, u.brace + 1)
       /\ \A o \in Openers(exprText) :
            (Balanced(exprText, o) /\ \E u \in ex.skipped : u.brace < o.end - 1)
              => InRewritten(o)

\* an opener was skipped and a later one rewritten, with a changed value
C10_Witness ==
  /\ pc = "compare"
  /\ \E u \in ex.skipped : \E r \in ex.rewritten : u.brace < r.open /\ r.grow # 0

(***************************************************************************)
(* The quoted strings of a text, read off by position.  A backslash inside *)
(* a string or a template literal takes the next character; a quote with   *)
(* no closing quote after it is an unclosed one.                           *)
(***************************************************************************)
RECURSIVE CloseIndex(_, _, _, _)
\* the index of the first quote at or after j that no backslash takes, or -1
CloseIndex(input, j, quote, esc) ==
  IF j >= Len(input) THEN -1
  ELSE IF esc THEN CloseIndex(input, j + 1, quote, FALSE)
  ELSE IF At(input, j) = BackSlash THEN CloseIndex(input, j + 1, quote, TRUE)
  ELSE IF At(input, j) = quote THEN j
  ELSE CloseIndex(input, j + 1, quote, FALSE)

RECURSIVE ClosedStrings(_, _, _, _)
\* the closed strings outside template literals from i on, left to right
ClosedStrings(input, i, tmpl, esc) ==
  IF i >= Len(input) THEN <<>>
  ELSE
    LET c == At(input, i) IN
    IF tmpl THEN
      IF esc THEN ClosedStrings(input, i + 1, TRUE, FALSE)
      ELSE IF c = BackSlash THEN ClosedStrings(input, i + 1, TRUE, TRUE)
      ELSE ClosedStrings(input, i + 1, c # BackTick, FALSE)
    ELSE IF c = BackTick THEN ClosedStrings(input, i + 1, TRUE, FALSE)
    ELSE IF c \in {SingleQuote, DoubleQuote} /\ CloseIndex(input, i + 1, c, FALSE) # -1
    THEN <<[open |-> i, close |-> CloseIndex(input, i + 1, c, FALSE), quote |-> c]>>
           \o ClosedStrings(input, CloseIndex(input, i + 1, c, FALSE) + 1, FALSE, FALSE)
    ELSE ClosedStrings(input, i + 1, FALSE, FALSE)

RECURSIVE FirstUnclosed(_, _, _, _)
\* the index of the first quote outside template literals that opens a
\* string and has no closing quote, or -1
FirstUnclosed(input, i, tmpl, esc) ==
  IF i >= Len(input) THEN -1
  ELSE
    LET c == At(input, i) IN
    IF tmpl THEN
      IF esc THEN FirstUnclosed(input, i + 1, TRUE, FALSE)
      ELSE IF c = BackSlash THEN FirstUnclosed(input, i + 1, TRUE, TRUE)
      ELSE FirstUnclosed(input, i + 1, c # BackTick, FALSE)
    ELSE IF c = BackTick THEN FirstUnclosed(input, i + 1, TRUE, FALSE)
    ELSE IF c \in {SingleQuote, DoubleQuote} THEN
      IF CloseIndex(input, i + 1, c, FALSE) = -1 THEN i
      ELSE FirstUnclosed(input, CloseIndex(input, i + 1, c, FALSE) + 1, FALSE, FALSE)
    ELSE FirstUnclosed(input, i + 1, FALSE, FALSE)

\* the scanner has returned
ScanDone == scan.input # <<>> /\ scan.st.i >= Len(scan.input)

\* C11 as the specification states it: when the scanner meets a quote that
\* opens a string with no closing quote, the output from that quote to the
\* end is the input from that quote to the end, and the replacer is called
\* for no text after the quote
C11_UnclosedRestVerbatim ==
  ScanDone =>
    LET u == FirstUnclosed(scan.input, 0, FALSE, FALSE)
        n == Len(scan.input) - u
        out == scan.st.out
    IN  u # -1 =>
          /\ Len(out) >= n
          /\ SubSeq(out, Len(out) - n + 1, Len(out)) = SliceFrom(scan.input, u)
          /\ Len(scan.st.calls) =
               Len(ClosedStrings(Slice(scan.input, 0, u), 0, FALSE, FALSE))

\* the iteration under way is at a quote that opens a string with no
\* closing quote
AtUnclosed ==
  /\ scan.st.i < Len(scan.input)
  /\ ~scan.st.inBacktick
  /\ At(scan.input, scan.st.i) \in {SingleQuote, DoubleQuote}
  /\ CloseIndex(scan.input, scan.st.i + 1, At(scan.input, scan.st.i), FALSE) = -1

\* C11 as amended: at a quote that opens a string with no closing quote the
\* scanner emits that one character, calls the replacer for nothing, and
\* goes on with the next character, so that strings closed further on are
\* still rewritten
C11_UnclosedQuoteEmitted ==
  [][AtUnclosed =>
       /\ scan'.st.out = Append(scan.st.out, At(scan.input, scan.st.i))
       /\ scan'.st.i = scan.st.i + 1
       /\ scan'.st.calls = scan.st.calls
       /\ ~scan'.st.inBacktick]_vars

\* the scanner has gone past an unclosed quote and has rewritten a string
\* that comes after it
C11_Witness ==
  /\ ScanDone
  /\ LET u == FirstUnclosed(scan.input, 0, FALSE, FALSE) IN
       /\ u # -1
       /\ Len(scan.st.calls) >
            Len(ClosedStrings(Slice(scan.input, 0, u), 0, FALSE, FALSE))
       /\ Len(scan.st.out) > Len(scan.input)
       /\ SubSeq(scan.st.out, Len(scan.st.out) - (Len(scan.input) - u) + 1,
                 Len(scan.st.out)) # SliceFrom(scan.input, u)

(***************************************************************************)
(* Brace depth, read off character by character from the opening brace    *)
(* on: braces count outside strings and template literals only, and a      *)
(* backslash inside one of these takes the next character.                 *)
(***************************************************************************)
RECURSIVE Depths(_, _, _, _, _)
\* the depth after each of the characters from index k on
Depths(source, k, mode, esc, depth) ==
  IF k >= Len(source) THEN <<>>
  ELSE
    LET c == At(source, k) IN
    IF mode = "code" THEN
      IF c \in QuoteChars THEN <<depth>> \o Depths(source, k + 1, c, FALSE, depth)
      ELSE IF c = "{" THEN <<depth + 1>> \o Depths(source, k + 1, "code", FALSE, depth + 1)
      ELSE IF c = "}" THEN <<depth - 1>> \o Depths(source, k + 1, "code", FALSE, depth - 1)
      ELSE <<depth>> \o Depths(source, k + 1, "code", FALSE, depth)
    ELSE IF esc THEN <<depth>> \o Depths(source, k + 1, mode, FALSE, depth)
    ELSE IF c = BackSlash THEN <<depth>> \o Depths(source, k + 1, mode, TRUE, depth)
    ELSE IF c = mode THEN <<depth>> \o Depths(source, k + 1, "code", FALSE, depth)
    ELSE <<depth>> \o Depths(source, k + 1, mode, FALSE, depth)

\* the indices after openIndex at which the depth is zero
DepthZeros(source, openIndex) ==
  LET d == Depths(source, openIndex, "code", FALSE, 0) IN
  {i \in (openIndex + 1)..(Len(source) - 1) : d[i - openIndex + 1] = 0}

\* C12: the Brace Matcher returns the smallest index after openIndex at which
\* the brace depth, counted outside single-quoted, double-quoted and backtick
\* strings with a backslash inside them taking the next character, is back
\* at zero, and -1 exactly when the text ends before that
C12_BraceMatcher ==
  (brace.source # <<>> /\ brace.st.done) =>
    LET zeros == DepthZeros(brace.source, brace.openIndex) IN
      /\ brace.st.ret = -1 <=> zeros = {}
      /\ brace.st.ret # -1 =>
           /\ brace.st.ret \in zeros
           /\ \A i \in zeros : brace.st.ret <= i

\* the matcher has returned the last index of a text with an inner pair of
\* braces, a closing brace and an escaped quote inside a string
C12_Witness ==
  /\ brace.st.done
  /\ brace.openIndex = 0
  /\ brace.st.ret = Len(brace.source) - 1
  /\ \E i \in 1..(brace.st.ret - 1) : \E j \in (i + 1)..(brace.st.ret - 1) :
       /\ Slice(brace.source, i, i + 3) = <<SingleQuote, "}", BackSlash>>
       /\ At(brace.source, j) = "{"

(***************************************************************************)
(* Which attribute names a configuration targets.  The patterns are not    *)
(* anchored: a name is matched when a part of it is.                       *)
(***************************************************************************)
RECURSIVE WildMatch(_, _)
\* the wildcard w, with "*" for any run of name characters, matches all of n
WildMatch(w, n) ==
  IF w = <<>> THEN n = <<>>
  ELSE IF Head(w) = "*"
  THEN \E k \in 0..Len(n) :
         /\ \A i \in 1..k : n[i] \in NameChars
         /\ WildMatch(Tail(w), SubSeq(n, k + 1, Len(n)))
  ELSE n # <<>> /\ Head(n) = Head(w) /\ WildMatch(Tail(w), Tail(n))

\* a part of the name n is matched by the wildcard w
WildFound(w, n) ==
  \E a \in 0..Len(n) : \E b \in a..Len(n) : WildMatch(w, Slice(n, a, b))

\* a part of the name n is matched by the regex fragment frag
FragmentFound(frag, n) ==
  /\ NewRegExp(<<frag>>).ok
  /\ \E a \in 0..Len(n) : Len(AltEnds(NewRegExp(<<frag>>).alts, 1, n, a)) > 0

\* the attribute name a match of a pattern starts with
HeadName(match) == Slice(match, 0, SkipClass(match, 0, NameChars))

ByClassName(n) == IsSubstring(ClassNameSrc, n)

ByWildcard(n) ==
  \E k \in 1..Len(CustomNames(config)) : WildFound(CustomNames(config)[k], n)

ByFragment(n) ==
  \E k \in 1..Len(config.customRegexPatterns) :
    FragmentFound(config.customRegexPatterns[k], n)

\* the name of the match the pass under way is at
MatchedName ==
  HeadName(Slice(IF pc = "direct" THEN result ELSE exprText, m.index, m.end))

\* in regex mode both passes take className and the names the fragments
\* match, and no name that only a wildcard matches; in wildcard mode they
\* take className and the names the wildcards match, the fragments are not
\* compiled, and no name that only a fragment matches is taken
C13_Supersedes ==
  /\ (pc \in {"direct", "expr"} /\ m.found) =>
       IF config.useRegex
       THEN ByClassName(MatchedName) \/ ByFragment(MatchedName)
       ELSE ByClassName(MatchedName) \/ ByWildcard(MatchedName)
  /\ ~config.useRegex => (warnings = <<>> /\ pc # "caught")

\* an add run on a buffer with className="cx" or className={'cx'}, cx not in
\* the skip list, ends with the buffer edited
C13_ClassNameRewritten ==
  \A k \in 1..Len(history) :
    (/\ history[k].addPrefix
     /\ history[k].outcome \notin {"noEditor", "unsupported"}
     /\ Plain \notin config.skipClasses
     /\ \/ IsSubstring(ClassNameSrc \o <<"=">> \o Quoted(DoubleQuote, Plain),
                        history[k].input)
        \/ IsSubstring(NestedAttr, history[k].input))
    => (history[k].outcome = "done" /\ history[k].output # history[k].input)

\* C13: regex mode supersedes wildcard mode: with useRegex a name that only
\* an entry of customPatterns matches is rewritten in neither pass, without
\* useRegex the entries of customRegexPatterns are never used, and in both
\* modes attributes named className are rewritten
C13_RegexSupersedesWildcard == C13_Supersedes /\ C13_ClassNameRewritten

\* the last match the callback of the direct pass ran on is the directly
\* quoted value of an attribute that only a wildcard matches
WildcardOnly ==
  /\ cb.called
  /\ ~config.useRegex
  /\ ~ByClassName(HeadName(cb.match))
  /\ ByWildcard(HeadName(cb.match))

\* the buffer of the command under way is <testClassName="..."> with any of
\* the quote characters
DirectWildcardValue ==
  \E q \in QuoteChars :
    /\ StartsWith(fullText, <<"<">> \o TestClassNameSrc \o <<"=", q>>)
    /\ \E i \in (Len(TestClassNameSrc) + 3)..(Len(fullText) - 1) :
         At(fullText, i) \in QuoteChars

\* C14 as the specification states it: in remove mode the direct-value pass
\* leaves the directly quoted value of a custom wildcard attribute as it is
C14_RemoveLeavesWildcard ==
  (WildcardOnly /\ ~addPrefix) => cb.ret = cb.match

\* C14 as amended: in wildcard mode the direct-value pass runs the same
\* patterns in remove mode as in add mode: the directly quoted value of a
\* custom wildcard attribute goes through the Token Processor in both, which
\* strips one leading prefix from each token when removing
C14_WildcardBothModes ==
  /\ WildcardOnly =>
       LET tokens == Tokens(cb.classes) IN
         cb.processedClasses =
           SpaceJoined([k \in 1..Len(tokens) |->
             IF addPrefix
             THEN ExpectedAdd(tokens[k], config.prefix, config.skipClasses)
             ELSE ExpectedRemove(tokens[k], config.prefix)])
  /\ (/\ pc \in {"expr", "compare", "edited", "formatted"}
      /\ ~config.useRegex
      /\ DirectWildcardValue)
     => (cb.called /\ HeadName(cb.match) = TestClassNameSrc)

\* a remove run has taken the prefix off the value of testClassName="p-cx"
C14_Witness ==
  /\ WildcardOnly /\ ~addPrefix
  /\ pc = "compare"
  /\ fullText = Tag(TestClassNameSrc \o <<"=">> \o Quoted(DoubleQuote, Prefix \o Plain))
  /\ result = Tag(TestClassNameSrc \o <<"=">> \o Quoted(DoubleQuote, Plain))

(***************************************************************************)
(* The calls a command makes to the editor, in the order it makes them.    *)
(***************************************************************************)
\* in the calls evs, Format Document comes right after an edit, and the
\* message of success after an edit and after Format Document if there is one
Ordered(evs) ==
  \A i \in 1..Len(evs) :
    /\ evs[i] = "formatDocument" => (i > 1 /\ evs[i - 1] = "edit")
    /\ evs[i] = "showInformationMessage: done" =>
         /\ \E j \in 1..(i - 1) : evs[j] = "edit"
         /\ \A j \in (i + 1)..Len(evs) : evs[j] # "formatDocument"

\* C15: when the processed text is the text of the document, no edit is
\* made, Format Document is not executed, and the only message is the one
\* that nothing was found; in every run Format Document is executed only
\* after an edit with a different text has been applied, and the message of
\* success only after that
C15_NoOpAndOrdering ==
  /\ Ordered(events)
  /\ (\E i \in 1..Len(events) : events[i] = "edit") =>
       (fullText # result /\ doc = result)
  /\ \A k \in 1..Len(history) :
       /\ Ordered(history[k].events)
       /\ (\E i \in 1..Len(history[k].events) : history[k].events[i] = "edit")
            => history[k].output # history[k].input
       /\ (history[k].outcome \in {"notFound", "done"}
            /\ history[k].output = history[k].input)
            => history[k].events = <<"showInformationMessage: did not find">>
  /\ (pc = "idle" /\ Len(history) > 0
      /\ history[Len(history)].outcome = "notFound")
     => (doc = fullText /\ fullText = result)

\* a run that edited, formatted and reported, then a run that found nothing
\* to do and left the document as it was
C15_Witness ==
  /\ pc = "idle"
  /\ Len(history) = 2
  /\ history[1].events = <<"edit", "formatDocument", "showInformationMessage: done">>
  /\ history[2].events = <<"showInformationMessage: did not find">>
  /\ doc = history[1].output /\ doc # history[1].input

\* C16: with the setting autoFormat false no command executes Format
\* Document, whatever the document and the outcome; with the setting true
\* Format Document is executed after an edit
C16_AutoFormatOptional ==
  /\ ~host.autoFormat =>
       /\ \A i \in 1..Len(events) : events[i] # "formatDocument"
       /\ \A k \in 1..Len(history) : \A i \in 1..Len(history[k].events) :
            history[k].events[i] # "formatDocument"
  /\ host.autoFormat =>
       \A k \in 1..Len(history) :
         history[k].outcome = "done" =>
           history[k].events = <<"edit", "formatDocument", "showInformationMessage: done">>

\* the file name ends with one of the extensions, letter case aside
EndsWithExtension(fileName) ==
  \E ext \in SUPPORTED_EXTENSIONS :
    /\ Len(fileName) >= Len(ext)
    /\ \A i \in 1..Len(ext) :
         LET c == fileName[Len(fileName) - Len(ext) + i] IN
           \/ c = ext[i]
           \/ \E u \in 1..26 : UpperCase[u] = c /\ LowerCase[u] = ext[i]

\* C17: when the file name of the active document does not end, letter case
\* aside, with .js, .jsx, .ts or .tsx, or when there is no active editor, the
\* commands leave the text of the document as it is and issue no edit and no
\* Format Document, whatever the document holds
C17_FileTypeGate ==
  (~host.editor \/ ~EndsWithExtension(host.fileName)) =>
    /\ pc = "idle"
    /\ \A i \in 1..Len(events) : events[i] \notin {"edit", "formatDocument"}
    /\ \A k \in 1..Len(history) :
         /\ history[k].input = doc /\ history[k].output = doc
         /\ \A i \in 1..Len(history[k].events) :
              history[k].events[i] \notin {"edit", "formatDocument"}

\* both commands have run on <className="cx"> in a file named a.tsxt and
\* have left it as it was
C17_Witness ==
  /\ host.editor
  /\ host.fileName = <<"a", ".", "t", "s", "x", "t">>
  /\ doc = Tag(ClassNameSrc \o <<"=">> \o Quoted(DoubleQuote, Plain))
  /\ Len(history) = 2
  /\ history[1].addPrefix /\ ~history[2].addPrefix
  /\ events = <<"showWarningMessage">>

ClassQuote(t, i) ==
  SkipClass(t, SkipClass(t, i + Len(ClassSrc), WhiteSpace) + 1, WhiteSpace)

IsClassAttr(t, i) ==
  /\ i + Len(ClassSrc) <= Len(t)
  /\ Slice(t, i, i + Len(ClassSrc)) = ClassSrc
  /\ i = 0 \/ At(t, i - 1) \notin NameChars
  /\ SkipClass(t, i + Len(ClassSrc), WhiteSpace) < Len(t)
  /\ At(t, SkipClass(t, i + Len(ClassSrc), WhiteSpace)) = "="
  /\ ClassQuote(t, i) < Len(t)
  /\ At(t, ClassQuote(t, i)) \in {DoubleQuote, SingleQuote}
  /\ SkipToClass(t, ClassQuote(t, i) + 1, {At(t, ClassQuote(t, i))}) < Len(t)

\* the values of the class attributes of t, left to right
ClassValues(t) ==
  LET Starts(i) == IsClassAttr(t, i)
      starts == SelectSeq([k \in 1..Len(t) |-> k - 1], Starts)
  IN  [k \in 1..Len(starts) |->
         Slice(t, ClassQuote(t, starts[k]) + 1,
               SkipToClass(t, ClassQuote(t, starts[k]) + 1,
                           {At(t, ClassQuote(t, starts[k]))}))]

\* C19: under the default configuration (wildcard *ClassName, no regex mode)
\* the value of every attribute named exactly class is the same in the
\* output of a command as in its input, wherever the attribute stands, the
\* expression value of a matched attribute included
C19_PlainClassUntouched ==
  (~config.useRegex /\ config.customPatterns = <<>>) =>
    \A k \in 1..Len(history) :
      ClassValues(history[k].output) = ClassValues(history[k].input)

RECURSIVE Revisited(_, _, _, _, _)
\* the text from index from on, with the content of each of the strings
\* strs[k..] replaced by what the visitor returns for it
Revisited(input, strs, k, from, rep) ==
  IF k > Len(strs) THEN SliceFrom(input, from)
  ELSE Slice(input, from, strs[k].open)
         \o <<strs[k].quote>>
         \o Replacer(rep, Slice(input, strs[k].open + 1, strs[k].close), strs[k].quote)
         \o <<strs[k].quote>>
         \o Revisited(input, strs, k + 1, strs[k].close + 1, rep)

\* C20: outside template literals the scanner calls the visitor exactly once
\* for every string that a quote opens and the next unescaped quote of the
\* same kind closes, from left to right, with the raw content of the string
\* (backslash pairs as they are, an escaped quote or a quote of the other
\* kind inside it closing nothing), and puts the quote, what the visitor
\* returned and the same quote in the place of the string; everything else
\* is in the output as it was
C20_VisitContract ==
  ScanDone =>
    LET strs == ClosedStrings(scan.input, 0, FALSE, FALSE) IN
      /\ scan.st.calls =
           [k \in 1..Len(strs) |->
              [content |-> Slice(scan.input, strs[k].open + 1, strs[k].close),
               quote |-> strs[k].quote]]
      /\ scan.st.out = Revisited(scan.input, strs, 1, 0, scan.rep)

\* the scanner has visited a single-quoted string with a brace and an
\* escaped quote inside and then a double-quoted string, and has given the
\* second one a prefix
C20_Witness ==
  /\ ScanDone
  /\ scan.rep.addPrefix
  /\ scan.st.calls =
       <<[content |-> <<"}", BackSlash, SingleQuote, "c">>, quote |-> SingleQuote],
         [content |-> Short \o <<" ">> \o Plain, quote |-> DoubleQuote]>>
  /\ SliceFrom(scan.st.out, Len(scan.st.out) - 8)
       = Quoted(DoubleQuote, Short \o <<" ">> \o Prefix \o Plain)

(***************************************************************************)
(* The expression-value pass goes forward only.                            *)
(***************************************************************************)
\* an opener whose match starts inside text[open + 1 .. close)
OpenerInside(text, open, close) ==
  \E o \in Openers(text) : open < o.index /\ o.index < close

\* C21: in the steps of one expression-value pass the output cursor
\* lastIndex and the scan position of startRe never decrease, a body that is
\* rewritten starts at or after the end of every body rewritten before (so
\* that no quoted string is handed to the Token Processor twice), and the
\* next match starts at or after the end of the body just rewritten: an
\* opener inside that body is not matched again
C21_NeverRevisits ==
  [][(pc = "expr" /\ pc' = "expr") =>
       /\ ex'.lastIndex >= ex.lastIndex
       /\ reLastIndex' >= reLastIndex
       /\ reLastIndex' >= ex'.lastIndex
       /\ m'.found => m'.index >= ex'.lastIndex
       /\ ex'.step = "rewrite" =>
            /\ ex'.openBraceIndex >= ex.lastIndex
            /\ ex'.lastIndex = ex'.closeIndex + 1
            /\ \A r \in ex.rewritten : r.close < ex'.openBraceIndex]_vars

\* a body with an opener and a quoted string inside has been rewritten, the
\* string changed, and a further opener after the body has been matched
C21_Witness ==
  /\ pc = "expr"
  /\ ex.step = "rewrite"
  /\ OpenerInside(exprText, ex.openBraceIndex, ex.closeIndex)
  /\ ex.transformedBody # ex.body
  /\ m.found
  /\ m.index >= ex.lastIndex

(***************************************************************************)
(* The locals of findMatchingBrace from one iteration to the next.         *)
(***************************************************************************)
\* how many of the flags inSingle, inDouble, inBacktick are set
FlagsSet(st) ==
  (IF st.inSingle THEN 1 ELSE 0) + (IF st.inDouble THEN 1 ELSE 0)
    + (IF st.inBacktick THEN 1 ELSE 0)

\* C22: after every iteration of findMatchingBrace at most one of inSingle,
\* inDouble, inBacktick is set; depth changes only in an iteration that
\* starts and ends with none of them set; once the brace at openIndex has
\* been taken depth is at least 1 as long as the loop goes on; the function
\* returns the index of the iteration that brings depth to 0, and -1 only
\* with depth at least 1
C22_BraceState ==
  [][~brace.st.done =>
       /\ FlagsSet(brace'.st) <= 1
       /\ brace'.st.depth # brace.st.depth =>
            /\ FlagsSet(brace.st) = 0
            /\ FlagsSet(brace'.st) = 0
            /\ At(brace.source, brace.st.i) \in {"{", "}"}
       /\ brace'.st.depth >= 0
       /\ ~brace'.st.done => brace'.st.depth >= 1
       /\ brace'.st.depth = 0 <=> (brace'.st.done /\ brace'.st.ret = brace.st.i)
       /\ brace'.st.done =>
            \/ brace'.st.ret = brace.st.i /\ At(brace.source, brace.st.i) = "}"
            \/ brace'.st.ret = -1 /\ brace.st.i >= Len(brace.source)]_vars

\* the matcher is at a brace inside a string, two braces deep
C22_Witness ==
  /\ ~brace.st.done
  /\ brace.st.i < Len(brace.source)
  /\ At(brace.source, brace.st.i) \in {"{", "}"}
  /\ FlagsSet(brace.st) = 1
  /\ brace.st.depth >= 2

(***************************************************************************)
(* The lexical state either function gives to each character: normal, in a *)
(* single-quoted or a double-quoted string, in a template literal.  The    *)
(* quote that opens a string is normal, the one that closes it is in it.   *)
(***************************************************************************)
BraceMode(st) ==
  IF st.inSingle THEN "single"
  ELSE IF st.inDouble THEN "double"
  ELSE IF st.inBacktick THEN "template"
  ELSE "normal"

RECURSIVE BraceModes(_, _)
\* the states of the characters findMatchingBrace goes over from st on: an
\* iteration that takes two characters gives its state to both
BraceModes(source, st) ==
  IF st.done \/ st.i >= Len(source) THEN <<>>
  ELSE
    LET nx == BraceStep(source, st)
        to == IF nx.done THEN st.i + 1
              ELSE IF nx.i > Len(source) THEN Len(source) ELSE nx.i
    IN  [k \in 1..(to - st.i) |-> BraceMode(st)] \o BraceModes(source, nx)

RECURSIVE ScanModes(_, _, _)
\* the states of the characters replaceQuotedStringsIgnoringTemplates goes
\* over from st on; "unclosed" for a quote taken by the unclosed-string branch
ScanModes(input, rep, st) ==
  IF st.i >= Len(input) THEN <<>>
  ELSE
    LET nx == ScanStep(input, rep, st)
        ch == At(input, st.i)
        n == nx.i - st.i
        here ==
          IF st.inBacktick THEN [k \in 1..n |-> "template"]
          ELSE IF ch \in {SingleQuote, DoubleQuote} THEN
            IF Len(nx.calls) > Len(st.calls)
            THEN <<"normal">> \o
                 [k \in 1..(n - 1) |-> IF ch = SingleQuote THEN "single" ELSE "double"]
            ELSE <<"unclosed">>
          ELSE <<"normal">>
    IN  here \o ScanModes(input, rep, nx)

\* the scanner runs on the text between braces that the matcher has matched
OnBody ==
  /\ brace.source # <<>>
  /\ brace.st.done
  /\ brace.st.ret # -1
  /\ scan # NoScan

\* C23: when findMatchingBrace has returned a closing index, the scanner on
\* the text between the two braces gives every character the state the
\* matcher gave it, never takes the unclosed-string branch, is at every
\* iteration in the state the matcher was in at that character, and ends
\* outside a template literal
C23_LexersAgree ==
  OnBody =>
    LET ofBrace == BraceModes(brace.source, BraceStart(brace.openIndex))
        ofScan == ScanModes(scan.input, scan.rep, ScanStart)
        k == scan.st.i
    IN  /\ ~AtUnclosed
        /\ Len(ofBrace) = Len(scan.input) + 2
        /\ ofScan = SubSeq(ofBrace, 2, Len(ofBrace) - 1)
        /\ k <= Len(scan.input)
        /\ k < Len(scan.input) =>
             ofBrace[k + 2] = (IF scan.st.inBacktick THEN "template" ELSE "normal")
        /\ k = Len(scan.input) => ~scan.st.inBacktick

\* the scanner has finished a body with a string and a template literal, and
\* has changed the string
C23_Witness ==
  /\ OnBody
  /\ scan.st.i = Len(scan.input)
  /\ scan.st.out # scan.input
  /\ LET ofScan == ScanModes(scan.input, scan.rep, ScanStart) IN
       /\ \E i \in 1..Len(ofScan) : ofScan[i] = "template"
       /\ \E i \in 1..Len(ofScan) : ofScan[i] \in {"single", "double"}

(***************************************************************************)
(* What the scanner and the expression-value pass leave as it is.          *)
(***************************************************************************)
\* the text so far with the content of each string closed so far replaced
\* by what the visitor returned for it, everything else as it is
Framed(input, i, rep) ==
  LET sofar == Slice(input, 0, i) IN
    Revisited(sofar, ClosedStrings(sofar, 0, FALSE, FALSE), 1, 0, rep)

\* C24: with a visitor that returns its content the output of the scanner
\* is, after every iteration, the input up to the index reached, and the
\* input when it returns, whatever the input (unclosed strings, unclosed
\* template literals, a backslash at the end); with any visitor the output
\* differs from the input in the contents of closed strings only
C24_ScannerFrame ==
  scan # NoScan =>
    /\ scan.st.i <= Len(scan.input)
    /\ scan.rep = IdentityVisitor => scan.st.out = Slice(scan.input, 0, scan.st.i)
    /\ scan.st.out = Framed(scan.input, scan.st.i, scan.rep)

\* the scanner has returned, with the visitor that returns its content, a
\* text with a closed string with an escape inside and, after it, an
\* unclosed quote, an unclosed template literal or a backslash at the end
C24_Witness ==
  /\ ScanDone
  /\ scan.rep = IdentityVisitor
  /\ Len(scan.st.calls) > 0
  /\ \E k \in 1..Len(scan.st.calls[1].content) :
       scan.st.calls[1].content[k] = BackSlash
  /\ \/ FirstUnclosed(scan.input, 0, FALSE, FALSE) # -1
     \/ scan.st.inBacktick
     \/ At(scan.input, Len(scan.input) - 1) = BackSlash

RECURSIVE Reframed(_, _, _, _)
\* text from index from on, with the strings between the braces of each of
\* the regions replaced as above, from left to right
Reframed(text, regions, from, rep) ==
  IF regions = {} THEN SliceFrom(text, from)
  ELSE
    LET r == CHOOSE x \in regions : \A y \in regions : x.open <= y.open
        body == Slice(text, r.open + 1, r.close)
    IN  Slice(text, from, r.open + 1)
          \o Framed(body, Len(body), rep)
          \o <<"}">>
          \o Reframed(text, regions \ {r}, r.close + 1, rep)

\* the same for the expression-value pass: its result is its text with the
\* contents of the closed strings of the rewritten bodies replaced, and
\* nothing else changed
C24_PassFrame ==
  pc = "compare" =>
    result = Reframed(exprText, ex.rewritten, 0,
                      [prefix |-> config.prefix, skipClasses |-> SkipList,
                       addPrefix |-> addPrefix])

(***************************************************************************)
(* How often a run reaches one class token.                                *)
(***************************************************************************)
\* the number of places of s where p stands
Occurrences(s, p) ==
  Cardinality({i \in 0..(Len(s) - Len(p)) : Slice(s, i, i + Len(p)) = p})

\* C25: removePrefix takes at most one leading prefix from a class token:
\* wherever the buffer has the prefix twice in a row the output of the run
\* still has it once, so the output has the prefix at least as often as the
\* input has it doubled (a token with the prefix twice keeps one), also
\* when two patterns match the attribute or both passes reach the string
C25_PrefixRemovedOnce ==
  \A k \in 1..Len(history) :
    (~history[k].addPrefix /\ history[k].outcome \in {"done", "notFound"}) =>
      Occurrences(history[k].output, config.prefix)
        >= Occurrences(history[k].input, config.prefix \o config.prefix)

(***************************************************************************)
(* A buffer that is <className="V"> for a value V without a double quote.  *)
(***************************************************************************)
DoubleQuotedOpen == <<"<">> \o ClassNameSrc \o <<"=", DoubleQuote>>

DoubleQuotedClose == <<DoubleQuote, ">">>

DoubleQuotedSpan(d) ==
  SubSeq(d, Len(DoubleQuotedOpen) + 1, Len(d) - Len(DoubleQuotedClose))

IsDoubleQuotedValue(d) ==
  /\ Len(d) >= Len(DoubleQuotedOpen) + Len(DoubleQuotedClose)
  /\ StartsWith(d, DoubleQuotedOpen)
  /\ SubSeq(d, Len(d) - Len(DoubleQuotedClose) + 1, Len(d)) = DoubleQuotedClose
  /\ \A i \in 1..Len(DoubleQuotedSpan(d)) : DoubleQuotedSpan(d)[i] # DoubleQuote

\* C26: when the value of className is opened by a double quote and closed
\* by the next double quote, and has single quotes or backticks inside,
\* addPrefix gives every token between the two double quotes the prefix
\* unless the token has it or is an entry of skipClasses: the value does not
\* end at a quote of another kind
C26_WholeQuotedValue ==
  \A k \in 1..Len(history) :
    LET h == history[k] IN
    (/\ h.addPrefix
     /\ h.outcome \in {"done", "notFound"}
     /\ IsDoubleQuotedValue(h.input)
     /\ \E i \in 1..Len(DoubleQuotedSpan(h.input)) :
          DoubleQuotedSpan(h.input)[i] \in {SingleQuote, BackTick})
    =>
      LET tokens == Tokens(DoubleQuotedSpan(h.input)) IN
        /\ IsDoubleQuotedValue(h.output)
        /\ Tokens(DoubleQuotedSpan(h.output)) =
             [j \in 1..Len(tokens) |->
                ExpectedAdd(tokens[j], config.prefix, config.skipClasses)]

(***************************************************************************)
(* Termination.                                                            *)
(***************************************************************************)
\* every iteration of the scanner, of the brace matcher, of the replace of
\* the direct-value pass and of the loop of the expression-value pass moves
\* its position forward, and no position goes past the end of its text by
\* more than the one character an escape takes
C27_Advances ==
  [][/\ scan'.st # scan.st =>
          (scan'.st.i > scan.st.i /\ scan'.st.i <= Len(scan.input))
     /\ brace'.st # brace.st =>
          /\ brace'.st.done \/ brace'.st.i > brace.st.i
          /\ brace'.st.i <= Len(brace.source) + 1
     /\ (pc = "expr" /\ pc' = "expr") =>
          (reLastIndex' > reLastIndex /\ reLastIndex' <= Len(exprText))
     /\ (pc = "direct" /\ pc' = "direct" /\ pi' = pi) =>
          (reLastIndex' > reLastIndex /\ reLastIndex' <= Len(result))
     /\ (pc = "direct" /\ pc' = "direct" /\ pi' # pi) =>
          (pi' = pi + 1 /\ pi' <= Len(patterns))]_vars

\* C27: a run that has started its direct-value pass reaches Done after
\* the direct-value pass and the expression-value pass: it ends only when
\* both passes have returned and the processed text is there
C27_RunReachesDone ==
  [][(pc # "idle" /\ pc' = "idle") =>
       (startRe.ok /\ pc \in {"compare", "formatted"})]_vars

====
